---- MODULE Spec2Model ----
(***************************************************************************)
(* A model of two parts of the repository:                                 *)
(*                                                                         *)
(*  - the Firestore field-value model and its byte-budgeted comparator     *)
(*    (field_value.ts and util/misc.ts, both held in                       *)
(*    src/packages/firestore/test/unit/util/misc.test.ts);                 *)
(*  - the dependency-injection Container                                   *)
(*    (src/packages/ioc/src/Container.ts) and the module-level register    *)
(*    (src/unnamed/part_002).                                              *)
(*                                                                         *)
(* A FieldValue is a pair <<tag, payload>>.  A JavaScript string is the    *)
(* sequence of its UTF-16 code units, a number a record                    *)
(* [nan, negz, v], an ObjectValue's SortedMap the sequence of its          *)
(* <<key, value>> entries in key order.                                    *)
(***************************************************************************)
EXTENDS Integers, Sequences, FiniteSets, TLC

\* ------------------------------------------------------------------------
\* util/misc.ts
\* ------------------------------------------------------------------------

IndexTruncationThresholdBytes == 1500

MIN_HIGH_SURROGATE == 55296

MAX_HIGH_SURROGATE == 56319

Min(x, y) == IF x <= y THEN x ELSE y

Max(x, y) == IF x >= y THEN x ELSE y

\* left < right on two JavaScript strings: decided by the first code unit
\* that differs, a proper prefix being the smaller.
StrLess(l, r) ==
  LET n == Min(Len(l), Len(r))
      D == {i \in 1 .. n : l[i] # r[i]}
      k == CHOOSE i \in D : \A j \in D : i <= j
  IN IF D = {} THEN Len(l) < Len(r) ELSE l[k] < r[k]

\* primitiveComparator on numbers.
primitiveComparator(left, right) ==
  IF left < right THEN -1 ELSE IF left > right THEN 1 ELSE 0

\* primitiveComparator on strings.
primitiveComparatorStr(left, right) ==
  IF StrLess(left, right) THEN -1 ELSE IF StrLess(right, left) THEN 1 ELSE 0

isHighSurrogate(c) == c >= MIN_HIGH_SURROGATE /\ c <= MAX_HIGH_SURROGATE

\* String.prototype.substr(0, n).
Substr0(s, n) == SubSeq(s, 1, Min(Max(n, 0), Len(s)))

\* The loop of truncatedStringLength(threshold)(s) from the state (i, count):
\* <<i, count>> when it ends.  s.charCodeAt(i) is s[i + 1].
RECURSIVE truncatedStringLengthLoop(_, _, _, _)
truncatedStringLengthLoop(threshold, s, i, count) ==
  IF i < Len(s) /\ count < threshold
  THEN LET c == s[i + 1] IN
       IF c <= 127 THEN truncatedStringLengthLoop(threshold, s, i + 1, count + 1)
       ELSE IF c <= 2047
         THEN truncatedStringLengthLoop(threshold, s, i + 1, count + 2)
       ELSE IF isHighSurrogate(c)
         THEN truncatedStringLengthLoop(threshold, s, i + 2, count + 4)
       ELSE truncatedStringLengthLoop(threshold, s, i + 1, count + 3)
  ELSE <<i, count>>

\* What field_value.ts reads from truncatedStringLength(threshold)(s): the
\* loop's i as .index and its count as .bytes.
truncatedStringLength(threshold, s) ==
  LET r == truncatedStringLengthLoop(threshold, s, 0, 0) IN
  [index |-> r[1], bytes |-> r[2]]

\* immediatePredecessor without its NUL case: the last code unit is always
\* decremented, NUL wrapping around to FFFF as String.fromCharCode(-1) does.
immediatePredecessor_AlwaysDecrements(s) ==
  LET lastIndex == Len(s) - 1 IN
  IF Len(s) = 0 THEN <<>>
  ELSE SubSeq(s, 1, lastIndex) \o <<(s[lastIndex + 1] - 1) % 65536>>

\* immediatePredecessor and immediateSuccessor.
immediatePredecessor(s) ==
  LET lastIndex == Len(s) - 1 IN
  IF Len(s) = 0 THEN <<>>
  ELSE IF s[lastIndex + 1] = 0 THEN SubSeq(s, 1, lastIndex)
  ELSE SubSeq(s, 1, lastIndex) \o <<s[lastIndex + 1] - 1>>

immediateSuccessor(s) == s \o <<0>>

\* ------------------------------------------------------------------------
\* field_value.ts: numbers and strings
\* ------------------------------------------------------------------------

\* JavaScript numbers: NaN, -0, or the integer v (+0 is v = 0, negz = FALSE).
Num(v) == [nan |-> FALSE, negz |-> FALSE, v |-> v]

NaN == [nan |-> TRUE, negz |-> FALSE, v |-> 0]

NegZero == [nan |-> FALSE, negz |-> TRUE, v |-> 0]

\* left < right, left > right, left === right on numbers.
JsLt(left, right) == ~left.nan /\ ~right.nan /\ left.v < right.v

JsGt(left, right) == JsLt(right, left)

JsStrictEq(left, right) == ~left.nan /\ ~right.nan /\ left.v = right.v

isNaN(x) == x.nan

\* numericComparator without its NaN branch: what primitiveComparator's plain
\* < and > give, NaN comparing equal to everything.
numericComparator_NaNEqualsAll(left, right) ==
  IF JsLt(left, right) THEN -1
  ELSE IF JsGt(left, right) THEN 1
  ELSE 0

numericComparator(left, right) ==
  IF JsLt(left, right) THEN -1
  ELSE IF JsGt(left, right) THEN 1
  ELSE IF JsStrictEq(left, right) THEN 0
  ELSE IF isNaN(left) THEN (IF isNaN(right) THEN 0 ELSE -1)
  ELSE 1

\* left !== 0 || 1 / left === 1 / right, for left === right; else both NaN.
numericEquals(left, right) ==
  IF JsStrictEq(left, right)
  THEN left.v # 0 \/ left.negz = right.negz
  ELSE left.nan /\ right.nan

\* stringCompare that forgets which side was cut: equal prefixes compare equal.
stringCompare_IgnoresTruncation(bytesRemaining, left, right) ==
  LET leftIndex == truncatedStringLength(bytesRemaining - 1, left)
      rightIndex == truncatedStringLength(bytesRemaining - 1, right)
  IN [cmp |-> primitiveComparatorStr(Substr0(left, leftIndex.index),
                                     Substr0(right, rightIndex.index)),
      bytes |-> leftIndex.bytes + 1]

\* stringCompare putting the truncated string below the one it is cut to.
stringCompare_TruncatedIsLess(bytesRemaining, left, right) ==
  LET leftIndex == truncatedStringLength(bytesRemaining - 1, left)
      rightIndex == truncatedStringLength(bytesRemaining - 1, right)
      cmp == primitiveComparatorStr(Substr0(left, leftIndex.index),
                                    Substr0(right, rightIndex.index))
      leftIsTruncated == leftIndex.index < Len(left)
      rightIsTruncated == rightIndex.index < Len(right)
  IN
  IF cmp = 0 /\ leftIsTruncated /\ rightIsTruncated
    THEN [cmp |-> cmp, bytes |-> leftIndex.bytes + 1]
  ELSE IF cmp = 0 /\ leftIsTruncated
    THEN [cmp |-> -1, bytes |-> rightIndex.bytes + 1]
  ELSE IF cmp = 0 /\ rightIsTruncated
    THEN [cmp |-> 1, bytes |-> leftIndex.bytes + 1]
  ELSE [cmp |-> cmp, bytes |-> leftIndex.bytes + 1]

stringCompare(bytesRemaining, left, right) ==
  LET leftIndex == truncatedStringLength(bytesRemaining - 1, left)
      rightIndex == truncatedStringLength(bytesRemaining - 1, right)
      cmp == primitiveComparatorStr(Substr0(left, leftIndex.index),
                                    Substr0(right, rightIndex.index))
      leftIsTruncated == leftIndex.index < Len(left)
      rightIsTruncated == rightIndex.index < Len(right)
  IN
  IF cmp = 0 /\ leftIsTruncated /\ rightIsTruncated
    THEN [cmp |-> cmp, bytes |-> leftIndex.bytes + 1]
  ELSE IF cmp = 0 /\ leftIsTruncated
    THEN [cmp |-> 1, bytes |-> rightIndex.bytes + 1]
  ELSE IF cmp = 0 /\ rightIsTruncated
    THEN [cmp |-> -1, bytes |-> leftIndex.bytes + 1]
  ELSE [cmp |-> cmp, bytes |-> leftIndex.bytes + 1]

\* ------------------------------------------------------------------------
\* Collaborators of field_value.ts whose code is outside the source files:
\* Timestamp, Blob, GeoPoint, DatabaseId, DocumentKey.
\* ------------------------------------------------------------------------

\* Timestamp: (seconds, nanos), sortable.
Timestamp_compareTo(t, o) ==
  IF t.seconds # o.seconds THEN primitiveComparator(t.seconds, o.seconds)
  ELSE primitiveComparator(t.nanos, o.nanos)

Timestamp_equals(t, o) == t.seconds = o.seconds /\ t.nanos = o.nanos

\* Blob: an opaque byte sequence, compared byte by byte.
Blob_size(b) == Len(b)

Blob_compareTo(b, o) == primitiveComparatorStr(b, o)

Blob_equals(b, o) == b = o

\* GeoPoint: (latitude, longitude), compared lexicographically.
GeoPoint_compareTo(g, o) ==
  IF g.latitude # o.latitude THEN primitiveComparator(g.latitude, o.latitude)
  ELSE primitiveComparator(g.longitude, o.longitude)

GeoPoint_equals(g, o) == g.latitude = o.latitude /\ g.longitude = o.longitude

\* DatabaseId: (projectId, database).
DatabaseId_compareTo(d, o) ==
  IF d.projectId # o.projectId
  THEN primitiveComparatorStr(d.projectId, o.projectId)
  ELSE primitiveComparatorStr(d.database, o.database)

DatabaseId_equals(d, o) == d.projectId = o.projectId /\ d.database = o.database

\* The UTF-8 byte count of a whole string.
Utf8Len(s) == truncatedStringLengthLoop(4 * Len(s) + 1, s, 0, 0)[2]

\* DocumentKey: a sequence of path segments.  truncatedPath(budget) keeps the
\* leading segments that fit in budget bytes: the path is cut at a segment
\* boundary.
RECURSIVE truncatedPathLoop(_, _, _, _)
truncatedPathLoop(key, budget, n, bytes) ==
  IF n < Len(key) /\ bytes + Utf8Len(key[n + 1]) <= budget
  THEN truncatedPathLoop(key, budget, n + 1, bytes + Utf8Len(key[n + 1]))
  ELSE [byteLength |-> bytes, path |-> SubSeq(key, 1, n)]

DocumentKey_truncatedPath(key, budget) == truncatedPathLoop(key, budget, 0, 0)

DocumentKey_equals(key, o) == key = o

\* DocumentKey.truncatedComparator: the truncated paths segment by segment, a
\* proper prefix first.
RECURSIVE PathCompare(_, _)
PathCompare(p, q) ==
  IF p = <<>> /\ q = <<>> THEN 0
  ELSE IF p = <<>> THEN -1
  ELSE IF q = <<>> THEN 1
  ELSE IF primitiveComparatorStr(p[1], q[1]) # 0
    THEN primitiveComparatorStr(p[1], q[1])
  ELSE PathCompare(Tail(p), Tail(q))

DocumentKey_truncatedComparator(thisPath, otherPath) ==
  PathCompare(thisPath.path, otherPath.path)

\* ------------------------------------------------------------------------
\* field_value.ts: the variants
\* ------------------------------------------------------------------------

Tag(v) == v[1]

Payload(v) == v[2]

NullValue == <<"NullValue", "null">>

BooleanValue(b) == <<"BooleanValue", b>>

IntegerValue(n) == <<"IntegerValue", Num(n)>>

DoubleValue(x) == <<"DoubleValue", x>>

StringValue(s) == <<"StringValue", s>>

TimestampValue(sec, ns) == <<"TimestampValue", [seconds |-> sec, nanos |-> ns]>>

NoValue == <<"undefined">>

ServerTimestampValue(sec, ns, prev) ==
  <<"ServerTimestampValue",
    [localWriteTime |-> [seconds |-> sec, nanos |-> ns], previousValue |-> prev]>>

BlobValue(b) == <<"BlobValue", b>>

RefValue(project, database, key) ==
  <<"RefValue",
    [databaseId |-> [projectId |-> project, database |-> database], key |-> key]>>

GeoPointValue(lat, lon) == <<"GeoPointValue", [latitude |-> lat, longitude |-> lon]>>

ArrayValue(vs) == <<"ArrayValue", vs>>

\* entries: <<key, value>> pairs in strictly increasing key order.
ObjectValue(entries) == <<"ObjectValue", entries>>

ObjectValue_EMPTY == ObjectValue(<<>>)

isNumberValue(v) == Tag(v) \in {"IntegerValue", "DoubleValue"}

\* enum TypeOrder, and each class's typeOrder field.
typeOrder(v) ==
  CASE Tag(v) = "NullValue" -> 0
    [] Tag(v) = "BooleanValue" -> 1
    [] isNumberValue(v) -> 2
    [] Tag(v) \in {"TimestampValue", "ServerTimestampValue"} -> 3
    [] Tag(v) = "StringValue" -> 4
    [] Tag(v) = "BlobValue" -> 5
    [] Tag(v) = "RefValue" -> 6
    [] Tag(v) = "GeoPointValue" -> 7
    [] Tag(v) = "ArrayValue" -> 8
    [] Tag(v) = "ObjectValue" -> 9

RECURSIVE truncatedSize(_, _)
RECURSIVE ArrayValue_truncatedSizeLoop(_, _, _)
RECURSIVE ObjectValue_truncatedSizeLoop(_, _, _)
RECURSIVE equals(_, _)
RECURSIVE compare(_, _, _)
RECURSIVE ArrayValue_compareLoop(_, _, _, _, _)
RECURSIVE ObjectValue_compareLoop(_, _, _, _, _)

BlobValue_truncatedSize(this, bytesRemaining) ==
  Min(Blob_size(Payload(this)), bytesRemaining)

StringValue_truncatedSize(this, bytesRemaining) ==
  truncatedStringLength(bytesRemaining, Payload(this)).bytes

RefValue_truncatedSize(this, bytesRemaining) ==
  16 + DocumentKey_truncatedPath(Payload(this).key, bytesRemaining - 16).byteLength

\* The for loop of ArrayValue.truncatedSize from index i (0-based): the value
\* of remaining when it ends.
ArrayValue_truncatedSizeLoop(vs, i, remaining) ==
  IF i < Len(vs) /\ remaining > 0
  THEN ArrayValue_truncatedSizeLoop(vs, i + 1,
         remaining - truncatedSize(vs[i + 1], remaining))
  ELSE remaining

ArrayValue_truncatedSize(this, bytesRemaining) ==
  bytesRemaining - ArrayValue_truncatedSizeLoop(Payload(this), 0, bytesRemaining)

\* The while loop of ObjectValue.truncatedSize with the iterator at entry i.
ObjectValue_truncatedSizeLoop(es, i, remaining) ==
  IF remaining > 0 /\ i < Len(es)
  THEN LET key == es[i + 1][1]
           value == es[i + 1][2]
           r1 == remaining - 1
           r2 == r1 - truncatedStringLength(r1, key).bytes
           r3 == IF r2 > 0 THEN r2 - truncatedSize(value, r2) ELSE r2
       IN ObjectValue_truncatedSizeLoop(es, i + 1, r3)
  ELSE remaining

ObjectValue_truncatedSize(this, bytesRemaining) ==
  bytesRemaining - ObjectValue_truncatedSizeLoop(Payload(this), 0, bytesRemaining)

truncatedSize(this, bytesRemaining) ==
  CASE Tag(this) \in {"NullValue", "BooleanValue"} -> 1
    [] isNumberValue(this) -> 8
    [] Tag(this) \in {"TimestampValue", "ServerTimestampValue"} -> 8
    [] Tag(this) = "StringValue" -> StringValue_truncatedSize(this, bytesRemaining)
    [] Tag(this) = "BlobValue" -> BlobValue_truncatedSize(this, bytesRemaining)
    [] Tag(this) = "RefValue" -> RefValue_truncatedSize(this, bytesRemaining)
    [] Tag(this) = "GeoPointValue" -> 16
    [] Tag(this) = "ArrayValue" -> ArrayValue_truncatedSize(this, bytesRemaining)
    [] Tag(this) = "ObjectValue" -> ObjectValue_truncatedSize(this, bytesRemaining)

\* ------------------------------------------------------------------------
\* field_value.ts: equals
\* ------------------------------------------------------------------------

\* The loop of ArrayValue.equals from index i.
RECURSIVE ArrayValue_equalsLoop(_, _, _)
ArrayValue_equalsLoop(vs, os, i) ==
  IF i < Len(vs)
  THEN IF ~equals(vs[i + 1], os[i + 1]) THEN FALSE
       ELSE ArrayValue_equalsLoop(vs, os, i + 1)
  ELSE TRUE

\* The loop of ObjectValue.equals with both iterators at entry i.
RECURSIVE ObjectValue_equalsLoop(_, _, _)
ObjectValue_equalsLoop(es, os, i) ==
  IF i < Len(es) /\ i < Len(os)
  THEN IF es[i + 1][1] # os[i + 1][1] \/ ~equals(es[i + 1][2], os[i + 1][2])
       THEN FALSE
       ELSE ObjectValue_equalsLoop(es, os, i + 1)
  ELSE ~(i < Len(es)) /\ ~(i < Len(os))

IntegerValue_equals(this, other) ==
  IF Tag(other) = "IntegerValue"
  THEN numericEquals(Payload(this), Payload(other))
  ELSE FALSE

DoubleValue_equals(this, other) ==
  IF Tag(other) = "DoubleValue"
  THEN numericEquals(Payload(this), Payload(other))
  ELSE FALSE

ServerTimestampValue_equals(this, other) ==
  /\ Tag(other) = "ServerTimestampValue"
  /\ Timestamp_equals(Payload(this).localWriteTime, Payload(other).localWriteTime)

RefValue_equals(this, other) ==
  IF Tag(other) = "RefValue"
  THEN /\ DocumentKey_equals(Payload(this).key, Payload(other).key)
       /\ DatabaseId_equals(Payload(this).databaseId, Payload(other).databaseId)
  ELSE FALSE

ArrayValue_equals(this, other) ==
  IF Tag(other) = "ArrayValue"
  THEN IF Len(Payload(this)) # Len(Payload(other)) THEN FALSE
       ELSE ArrayValue_equalsLoop(Payload(this), Payload(other), 0)
  ELSE FALSE

ObjectValue_equals(this, other) ==
  IF Tag(other) = "ObjectValue"
  THEN ObjectValue_equalsLoop(Payload(this), Payload(other), 0)
  ELSE FALSE

equals(this, other) ==
  CASE Tag(this) = "NullValue" -> Tag(other) = "NullValue"
    [] Tag(this) = "BooleanValue" ->
         Tag(other) = "BooleanValue" /\ Payload(this) = Payload(other)
    [] Tag(this) = "IntegerValue" -> IntegerValue_equals(this, other)
    [] Tag(this) = "DoubleValue" -> DoubleValue_equals(this, other)
    [] Tag(this) = "StringValue" ->
         Tag(other) = "StringValue" /\ Payload(this) = Payload(other)
    [] Tag(this) = "TimestampValue" ->
         Tag(other) = "TimestampValue"
           /\ Timestamp_equals(Payload(this), Payload(other))
    [] Tag(this) = "ServerTimestampValue" -> ServerTimestampValue_equals(this, other)
    [] Tag(this) = "BlobValue" ->
         Tag(other) = "BlobValue" /\ Blob_equals(Payload(this), Payload(other))
    [] Tag(this) = "RefValue" -> RefValue_equals(this, other)
    [] Tag(this) = "GeoPointValue" ->
         Tag(other) = "GeoPointValue"
           /\ GeoPoint_equals(Payload(this), Payload(other))
    [] Tag(this) = "ArrayValue" -> ArrayValue_equals(this, other)
    [] Tag(this) = "ObjectValue" -> ObjectValue_equals(this, other)

\* ------------------------------------------------------------------------
\* field_value.ts: compare
\* ------------------------------------------------------------------------

SizedComparison(cmp, bytes) == [cmp |-> cmp, bytes |-> bytes]

\* The cmp that stands for the assertion of defaultCompareTo failing: every
\* caller hands a nonzero cmp on to its own caller, as it would the exception.
AssertionFailed == 2

defaultCompareTo(this, other) ==
  IF typeOrder(this) # typeOrder(other)
  THEN primitiveComparator(typeOrder(this), typeOrder(other))
  ELSE AssertionFailed

\* defaultCompare charging the larger-typed side.
defaultCompare_ChargesLarger(this, other, bytesRemaining) ==
  LET cmp == defaultCompareTo(this, other) IN
  IF cmp <= 0
  THEN SizedComparison(cmp, truncatedSize(other, bytesRemaining))
  ELSE SizedComparison(cmp, truncatedSize(this, bytesRemaining))

defaultCompare(this, other, bytesRemaining) ==
  LET cmp == defaultCompareTo(this, other) IN
  IF cmp <= 0
  THEN SizedComparison(cmp, truncatedSize(this, bytesRemaining))
  ELSE SizedComparison(cmp, truncatedSize(other, bytesRemaining))

NullValue_compare(this, other, bytesRemaining) ==
  IF Tag(other) = "NullValue"
  THEN SizedComparison(0, truncatedSize(this, bytesRemaining))
  ELSE defaultCompare(this, other, bytesRemaining)

\* FieldValue.toString() of a BooleanValue: "true" or "false", which is what
\* primitiveComparator(this, other) compares.
BooleanValue_toString(this) ==
  IF Payload(this) THEN <<116, 114, 117, 101>> ELSE <<102, 97, 108, 115, 101>>

BooleanValue_compare(this, other, bytesRemaining) ==
  IF Tag(other) = "BooleanValue"
  THEN SizedComparison(
         primitiveComparatorStr(BooleanValue_toString(this),
                                BooleanValue_toString(other)),
         truncatedSize(this, bytesRemaining))
  ELSE defaultCompare(this, other, bytesRemaining)

\* NumberValue.compare taking only a number of its own class for a number.
NumberValue_compare_OwnClass(this, other, bytesRemaining) ==
  IF Tag(other) = Tag(this)
  THEN SizedComparison(numericComparator(Payload(this), Payload(other)),
                       truncatedSize(this, bytesRemaining))
  ELSE defaultCompare(this, other, bytesRemaining)

\* NumberValue.compare with primitiveComparator in place of numericComparator.
NumberValue_compare_Primitive(this, other, bytesRemaining) ==
  IF isNumberValue(other)
  THEN SizedComparison(
         IF JsLt(Payload(this), Payload(other)) THEN -1
         ELSE IF JsGt(Payload(this), Payload(other)) THEN 1 ELSE 0,
         truncatedSize(this, bytesRemaining))
  ELSE defaultCompare(this, other, bytesRemaining)

NumberValue_compare(this, other, bytesRemaining) ==
  IF isNumberValue(other)
  THEN SizedComparison(numericComparator(Payload(this), Payload(other)),
                       truncatedSize(this, bytesRemaining))
  ELSE defaultCompare(this, other, bytesRemaining)

StringValue_compare(this, other, bytesRemaining) ==
  IF Tag(other) = "StringValue"
  THEN stringCompare(bytesRemaining, Payload(this), Payload(other))
  ELSE defaultCompare(this, other, bytesRemaining)

\* TimestampValue.compare putting concrete timestamps after the sentinels.
TimestampValue_compare_AfterSentinel(this, other, bytesRemaining) ==
  IF Tag(other) = "TimestampValue"
    THEN SizedComparison(Timestamp_compareTo(Payload(this), Payload(other)),
                         truncatedSize(this, bytesRemaining))
  ELSE IF Tag(other) = "ServerTimestampValue"
    THEN SizedComparison(1, truncatedSize(this, bytesRemaining))
  ELSE defaultCompare(this, other, bytesRemaining)

TimestampValue_compare(this, other, bytesRemaining) ==
  IF Tag(other) = "TimestampValue"
    THEN SizedComparison(Timestamp_compareTo(Payload(this), Payload(other)),
                         truncatedSize(this, bytesRemaining))
  ELSE IF Tag(other) = "ServerTimestampValue"
    THEN SizedComparison(-1, truncatedSize(this, bytesRemaining))
  ELSE defaultCompare(this, other, bytesRemaining)

ServerTimestampValue_compare(this, other, bytesRemaining) ==
  IF Tag(other) = "ServerTimestampValue"
    THEN SizedComparison(
           Timestamp_compareTo(Payload(this).localWriteTime,
                               Payload(other).localWriteTime),
           truncatedSize(this, bytesRemaining))
  ELSE IF Tag(other) = "TimestampValue"
    THEN SizedComparison(1, truncatedSize(other, bytesRemaining))
  ELSE defaultCompare(this, other, bytesRemaining)

BlobValue_compare(this, other, bytesRemaining) ==
  IF Tag(other) = "BlobValue"
  THEN LET cmp == Blob_compareTo(Payload(this), Payload(other)) IN
       SizedComparison(cmp,
         IF cmp <= 0 THEN truncatedSize(this, bytesRemaining)
         ELSE truncatedSize(other, bytesRemaining))
  ELSE defaultCompare(this, other, bytesRemaining)

\* RefValue.compare comparing the whole paths, whatever the budget.
RefValue_compare_WholePaths(this, other, bytesRemaining) ==
  IF Tag(other) = "RefValue"
  THEN LET cmp == DatabaseId_compareTo(Payload(this).databaseId,
                                       Payload(other).databaseId)
           pathRemaining == bytesRemaining - 16
           thisPath == DocumentKey_truncatedPath(Payload(this).key, pathRemaining)
           otherPath == DocumentKey_truncatedPath(Payload(other).key, pathRemaining)
           pathCmp == PathCompare(Payload(this).key, Payload(other).key)
       IN
       IF bytesRemaining <= 16 THEN SizedComparison(cmp, 16)
       ELSE IF cmp # 0
         THEN SizedComparison(cmp,
                IF cmp < 0 THEN thisPath.byteLength ELSE otherPath.byteLength)
       ELSE SizedComparison(pathCmp,
              IF pathCmp <= 0 THEN thisPath.byteLength ELSE otherPath.byteLength)
  ELSE defaultCompare(this, other, bytesRemaining)

RefValue_compare(this, other, bytesRemaining) ==
  IF Tag(other) = "RefValue"
  THEN LET cmp == DatabaseId_compareTo(Payload(this).databaseId,
                                       Payload(other).databaseId)
           pathRemaining == bytesRemaining - 16
           thisPath == DocumentKey_truncatedPath(Payload(this).key, pathRemaining)
           otherPath == DocumentKey_truncatedPath(Payload(other).key, pathRemaining)
           pathCmp == DocumentKey_truncatedComparator(thisPath, otherPath)
       IN
       IF bytesRemaining <= 16 THEN SizedComparison(cmp, 16)
       ELSE IF cmp # 0
         THEN SizedComparison(cmp,
                IF cmp < 0 THEN thisPath.byteLength ELSE otherPath.byteLength)
       ELSE SizedComparison(pathCmp,
              IF pathCmp <= 0 THEN thisPath.byteLength ELSE otherPath.byteLength)
  ELSE defaultCompare(this, other, bytesRemaining)

GeoPointValue_compare(this, other, bytesRemaining) ==
  IF Tag(other) = "GeoPointValue"
  THEN SizedComparison(GeoPoint_compareTo(Payload(this), Payload(other)),
                       truncatedSize(this, bytesRemaining))
  ELSE defaultCompare(this, other, bytesRemaining)

\* ArrayValue.compare sizing the losing array against what is left of the
\* budget at the child that differs.
ArrayValue_compareLoop_RemainingBudget(this, other, i, remaining, bytesRemaining) ==
  LET vs == Payload(this)
      os == Payload(other)
      minLength == Min(Len(vs), Len(os))
  IN
  IF i < minLength /\ remaining > 0
  THEN LET cmp == compare(vs[i + 1], os[i + 1], remaining)
           value == IF cmp.cmp < 0 THEN this ELSE other
       IN
       IF cmp.cmp # 0
       THEN SizedComparison(cmp.cmp, truncatedSize(value, remaining))
       ELSE ArrayValue_compareLoop(this, other, i + 1, remaining - cmp.bytes,
                                   bytesRemaining)
  ELSE LET bytes == bytesRemaining - remaining IN
       IF Len(vs) < Len(os) THEN SizedComparison(-1, bytes)
       ELSE IF Len(vs) = Len(os) THEN SizedComparison(0, bytes)
       ELSE SizedComparison(1, bytes)

\* The for loop of ArrayValue.compare from index i, and what follows it.
ArrayValue_compareLoop(this, other, i, remaining, bytesRemaining) ==
  LET vs == Payload(this)
      os == Payload(other)
      minLength == Min(Len(vs), Len(os))
  IN
  IF i < minLength /\ remaining > 0
  THEN LET cmp == compare(vs[i + 1], os[i + 1], remaining)
           value == IF cmp.cmp < 0 THEN this ELSE other
       IN
       IF cmp.cmp # 0
       THEN SizedComparison(cmp.cmp, truncatedSize(value, bytesRemaining))
       ELSE ArrayValue_compareLoop(this, other, i + 1, remaining - cmp.bytes,
                                   bytesRemaining)
  ELSE LET bytes == bytesRemaining - remaining IN
       IF Len(vs) < Len(os) THEN SizedComparison(-1, bytes)
       ELSE IF Len(vs) = Len(os) THEN SizedComparison(0, bytes)
       ELSE SizedComparison(1, bytes)

ArrayValue_compare(this, other, bytesRemaining) ==
  IF Tag(other) = "ArrayValue"
  THEN ArrayValue_compareLoop(this, other, 0, bytesRemaining, bytesRemaining)
  ELSE defaultCompare(this, other, bytesRemaining)

\* The loop of ObjectValue.compare going on whatever remains of the budget.
ObjectValue_compareGuard_NoBudget(remaining) == TRUE

\* Whether the while loop of ObjectValue.compare runs once more with
\* `remaining` bytes left.
ObjectValue_compareGuard(remaining) == remaining >= 0

\* ObjectValue.compare charging, at a key mismatch, the lower side's value
\* against the budget it was called with.
ObjectValue_compareLoop_OriginalBudget(es, os, i, remaining, bytesRemaining) ==
  IF i < Len(es) /\ i < Len(os) /\ ObjectValue_compareGuard(remaining)
  THEN LET next1 == [key |-> es[i + 1][1], value |-> es[i + 1][2]]
           next2 == [key |-> os[i + 1][1], value |-> os[i + 1][2]]
           keyCmp == stringCompare(remaining, next1.key, next2.key)
           r1 == remaining - keyCmp.bytes
           lowValue == IF keyCmp.cmp < 0 THEN next1.value ELSE next2.value
           cmp == compare(next1.value, next2.value, r1)
           r2 == r1 - cmp.bytes
       IN
       IF keyCmp.cmp # 0
         THEN SizedComparison(keyCmp.cmp,
                bytesRemaining - (r1 - truncatedSize(lowValue, bytesRemaining)))
       ELSE IF cmp.cmp # 0
         THEN SizedComparison(cmp.cmp, bytesRemaining - r2)
       ELSE ObjectValue_compareLoop(es, os, i + 1, r2, bytesRemaining)
  ELSE LET bytes == bytesRemaining - remaining IN
       IF i < Len(es) THEN SizedComparison(1, bytes)
       ELSE IF i < Len(os) THEN SizedComparison(-1, bytes)
       ELSE SizedComparison(0, bytes)

\* The while loop of ObjectValue.compare with both iterators at entry i, and
\* what follows it.
ObjectValue_compareLoop(es, os, i, remaining, bytesRemaining) ==
  IF i < Len(es) /\ i < Len(os) /\ ObjectValue_compareGuard(remaining)
  THEN LET next1 == [key |-> es[i + 1][1], value |-> es[i + 1][2]]
           next2 == [key |-> os[i + 1][1], value |-> os[i + 1][2]]
           keyCmp == stringCompare(remaining, next1.key, next2.key)
           r1 == remaining - keyCmp.bytes
           lowValue == IF keyCmp.cmp < 0 THEN next1.value ELSE next2.value
           cmp == compare(next1.value, next2.value, r1)
           r2 == r1 - cmp.bytes
       IN
       IF keyCmp.cmp # 0
         THEN SizedComparison(keyCmp.cmp,
                bytesRemaining - (r1 - truncatedSize(lowValue, r1)))
       ELSE IF cmp.cmp # 0
         THEN SizedComparison(cmp.cmp, bytesRemaining - r2)
       ELSE ObjectValue_compareLoop(es, os, i + 1, r2, bytesRemaining)
  ELSE LET bytes == bytesRemaining - remaining IN
       IF i < Len(es) THEN SizedComparison(1, bytes)
       ELSE IF i < Len(os) THEN SizedComparison(-1, bytes)
       ELSE SizedComparison(0, bytes)

ObjectValue_compare(this, other, bytesRemaining) ==
  IF Tag(other) = "ObjectValue"
  THEN ObjectValue_compareLoop(Payload(this), Payload(other), 0, bytesRemaining,
                               bytesRemaining)
  ELSE defaultCompare(this, other, bytesRemaining)

compare(this, other, bytesRemaining) ==
  CASE Tag(this) = "NullValue" -> NullValue_compare(this, other, bytesRemaining)
    [] Tag(this) = "BooleanValue" -> BooleanValue_compare(this, other, bytesRemaining)
    [] isNumberValue(this) -> NumberValue_compare(this, other, bytesRemaining)
    [] Tag(this) = "StringValue" -> StringValue_compare(this, other, bytesRemaining)
    [] Tag(this) = "TimestampValue" ->
         TimestampValue_compare(this, other, bytesRemaining)
    [] Tag(this) = "ServerTimestampValue" ->
         ServerTimestampValue_compare(this, other, bytesRemaining)
    [] Tag(this) = "BlobValue" -> BlobValue_compare(this, other, bytesRemaining)
    [] Tag(this) = "RefValue" -> RefValue_compare(this, other, bytesRemaining)
    [] Tag(this) = "GeoPointValue" ->
         GeoPointValue_compare(this, other, bytesRemaining)
    [] Tag(this) = "ArrayValue" -> ArrayValue_compare(this, other, bytesRemaining)
    [] Tag(this) = "ObjectValue" -> ObjectValue_compare(this, other, bytesRemaining)

compareTo(this, other) == compare(this, other, IndexTruncationThresholdBytes).cmp

\* ------------------------------------------------------------------------
\* field_value.ts: ObjectValue.set, delete and field
\* ------------------------------------------------------------------------

RECURSIVE ObjectValue_set(_, _, _)
RECURSIVE ObjectValue_delete(_, _)
RECURSIVE ObjectValue_field(_, _)

\* A call on an object that the call could change: the receiver afterwards
\* and what the call returned.
Call(this, ret) == [this |-> this, ret |-> ret]

\* SortedMap.get(key): the value of the entry, or undefined.
SortedMap_get(map, key) ==
  IF \E i \in 1 .. Len(map) : map[i][1] = key
  THEN map[CHOOSE i \in 1 .. Len(map) : map[i][1] = key][2]
  ELSE NoValue

\* The entries of a map without the one of key, and with key bound to value:
\* in key order.
SortedMap_without(map, key) == SelectSeq(map, LAMBDA e : e[1] # key)

SortedMap_with(map, key, value) ==
  SelectSeq(map, LAMBDA e : StrLess(e[1], key))
    \o << <<key, value>> >>
    \o SelectSeq(map, LAMBDA e : StrLess(key, e[1]))

\* SortedMap.insert and SortedMap.remove: a persistent map returns a new map
\* and leaves the receiver as it was.
SortedMap_insert(map, key, value) == Call(map, SortedMap_with(map, key, value))

SortedMap_remove(map, key) == Call(map, SortedMap_without(map, key))

\* this.internalValue.get(childName) || undefined
ObjectValue_child(this, childName) == SortedMap_get(this[2], childName)

\* An ObjectValue that would overwrite its map with the one insert returns,
\* and return itself.
ObjectValue_setChild_InPlace(this, childName, value) ==
  LET r == SortedMap_insert(this[2], childName, value) IN
  Call(ObjectValue(r.ret), ObjectValue(r.ret))

\* new ObjectValue(this.internalValue.insert(childName, value))
ObjectValue_setChild(this, childName, value) ==
  LET r == SortedMap_insert(this[2], childName, value) IN
  Call(ObjectValue(r.this), ObjectValue(r.ret))

\* The receiver once a call on its child at childName has left the child as
\* childAfter: the child is reached through the receiver's map.
ObjectValue_withChildAfter(this, childName, childAfter) ==
  ObjectValue([i \in 1 .. Len(this[2]) |->
                 IF this[2][i][1] = childName THEN <<childName, childAfter>>
                 ELSE this[2][i]])

\* ObjectValue.set treating a child that is no object as delete does: the
\* receiver is returned as it is.
ObjectValue_set_KeepsPrimitive(this, path, to) ==
  IF Len(path) = 1 THEN ObjectValue_setChild(this, path[1], to)
  ELSE
    LET child == ObjectValue_child(this, path[1]) IN
    IF child[1] = "ObjectValue"
    THEN LET newChild == ObjectValue_set(child, Tail(path), to) IN
         ObjectValue_setChild(
           ObjectValue_withChildAfter(this, path[1], newChild.this),
           path[1], newChild.ret)
    ELSE Call(this, this)

\* ObjectValue.set(path, to), path not empty.  A child that is missing or no
\* object is taken to be ObjectValue.EMPTY.
ObjectValue_set(this, path, to) ==
  IF Len(path) = 1 THEN ObjectValue_setChild(this, path[1], to)
  ELSE
    LET found == ObjectValue_child(this, path[1])
        isObject == found[1] = "ObjectValue"
        child == IF isObject THEN found ELSE ObjectValue_EMPTY
        newChild == ObjectValue_set(child, Tail(path), to)
        thisAfter == IF isObject
                     THEN ObjectValue_withChildAfter(this, path[1], newChild.this)
                     ELSE this
    IN ObjectValue_setChild(thisAfter, path[1], newChild.ret)

\* ObjectValue.delete(path), path not empty.
ObjectValue_delete(this, path) ==
  IF Len(path) = 1
  THEN LET r == SortedMap_remove(this[2], path[1]) IN
       Call(ObjectValue(r.this), ObjectValue(r.ret))
  ELSE
    LET child == ObjectValue_child(this, path[1]) IN
    IF child[1] = "ObjectValue"
    THEN LET newChild == ObjectValue_delete(child, Tail(path))
             thisAfter == ObjectValue_withChildAfter(this, path[1], newChild.this)
             r == SortedMap_insert(thisAfter[2], path[1], newChild.ret)
         IN Call(ObjectValue(r.this), ObjectValue(r.ret))
    ELSE Call(this, this)

\* ObjectValue.field(path), path not empty: the forEach over the segments.
ObjectValue_field(this, path) ==
  LET field == IF this[1] = "ObjectValue" THEN SortedMap_get(this[2], path[1])
               ELSE NoValue
  IN IF Len(path) = 1 THEN field ELSE ObjectValue_field(field, Tail(path))

\* ------------------------------------------------------------------------
\* ioc/src/Container.ts
\* ------------------------------------------------------------------------

DEFAULT_SERVICE_INSTANCE == "[DEFAULT]"

Services == {"a", "b"}

\* options.instance: absent, or an instance string.
InstanceOptions == {"", "special"}

InstKeys == {DEFAULT_SERVICE_INSTANCE, "special"}

\* What a factory function does when the Container calls it: it returns a new
\* object, throws, or first calls getImmediate(dep) on the
\* same Container (as the factories of the cycle tests do) and then returns a
\* new object.  NotAFunction is a value that is no function.
NoFactory == [id |-> 0, kind |-> "none", dep |-> "none"]

NotAFunction == [id |-> 0, kind |-> "notfn", dep |-> "none"]

Factories ==
  { [id |-> 1, kind |-> "object", dep |-> "none"],
    [id |-> 2, kind |-> "throws", dep |-> "none"],
    [id |-> 3, kind |-> "dep", dep |-> "a"],
    [id |-> 4, kind |-> "dep", dep |-> "b"] }

Undefined == [by |-> 0, app |-> 0, service |-> "none", instKey |-> "none", serial |-> 0]

Truthy(inst) == inst # Undefined

\* new Container(app), before the constructor registers anything.  calls
\* counts the invocations of the factory of each service and instance key, as
\* the tests' sinon stub does.
NewContainer(app) ==
  [ _app |-> app,
    _instCache |-> [s \in Services |-> [k \in InstKeys |-> Undefined]],
    _factories |-> [s \in Services |-> NoFactory],
    _pendingRegistration |-> [s \in Services |-> FALSE],
    _pendingInit |-> [s \in Services |-> [k \in InstKeys |-> FALSE]],
    calls |-> [s \in Services |-> [k \in InstKeys |-> 0]] ]

Returned(cs, value) == [cs |-> cs, threw |-> "none", value |-> value]

Threw(cs, error) == [cs |-> cs, threw |-> error, value |-> Undefined]

\* Container.register that captures the factory before it looks whether one
\* is registered.
Container_register_CapturesFirst(cs, serviceName, factoryFxn) ==
  LET captured == [cs EXCEPT !._factories[serviceName] = factoryFxn,
                             !._pendingRegistration[serviceName] = FALSE]
  IN
  IF factoryFxn.kind = "notfn" THEN Threw(cs, "invalid-factory")
  ELSE IF cs._factories[serviceName] # NoFactory
    THEN Threw(captured, "already-exists")
  ELSE Returned(captured, Undefined)

\* Container.register: the container afterwards and what was thrown.  When a
\* Deferred is pending it is resolved with the factory: the gets awaiting it go
\* on with this._factories[serviceName].
Container_register(cs, serviceName, factoryFxn) ==
  IF factoryFxn.kind = "notfn" THEN Threw(cs, "invalid-factory")
  ELSE IF cs._factories[serviceName] # NoFactory THEN Threw(cs, "already-exists")
  ELSE Returned([cs EXCEPT !._factories[serviceName] = factoryFxn,
                           !._pendingRegistration[serviceName] = FALSE],
                Undefined)

instKeyOf(instance) == IF instance # "" THEN instance ELSE DEFAULT_SERVICE_INSTANCE

Container_getFromCache(cs, serviceName, instance) ==
  cs._instCache[serviceName][instKeyOf(instance)]

\* The object a factory call creates.
NewObject(cs, factory, serviceName, instKey) ==
  [by |-> factory.id, app |-> cs._app, service |-> serviceName,
   instKey |-> instKey, serial |-> cs.calls[serviceName][instKey] + 1]

RECURSIVE Container_getImmediate(_, _, _, _)
RECURSIVE CallFactory(_, _, _, _)

\* factory(this._app, options.instance): the container afterwards, and what the
\* factory returned or threw.
CallFactory(cs, factory, serviceName, instance) ==
  LET instKey == instKeyOf(instance)
      counted == [cs EXCEPT !.calls[serviceName][instKey] = @ + 1]
      inner == Container_getImmediate(counted, factory.dep, "", FALSE)
  IN
  CASE factory.kind = "object" ->
         Returned(counted, NewObject(cs, factory, serviceName, instKey))
    [] factory.kind = "throws" -> Threw(counted, "factory-error")
    [] factory.kind = "dep" ->
         IF inner.threw # "none" THEN Threw(inner.cs, inner.threw)
         ELSE Returned(inner.cs, NewObject(cs, factory, serviceName, instKey))

\* The cycle check with its test inverted.
CreateInstance_InvertedCycleCheck(cs, factory, serviceName, instance) ==
  LET instKey == instKeyOf(instance)
      pending == [cs EXCEPT !._pendingInit[serviceName][instKey] = TRUE]
      made == CallFactory(pending, factory, serviceName, instance)
  IN
  IF ~cs._pendingInit[serviceName][instKey] THEN Threw(cs, "cycle-detected")
  ELSE IF made.threw # "none" THEN made
  ELSE Returned([made.cs EXCEPT !._instCache[serviceName][instKey] = made.value,
                                !._pendingInit[serviceName][instKey] = FALSE],
                made.value)

\* The cycle check answering undefined where it has to throw.
CreateInstance_CycleReturnsUndefined(cs, factory, serviceName, instance) ==
  LET instKey == instKeyOf(instance)
      pending == [cs EXCEPT !._pendingInit[serviceName][instKey] = TRUE]
      made == CallFactory(pending, factory, serviceName, instance)
  IN
  IF cs._pendingInit[serviceName][instKey] THEN Returned(cs, Undefined)
  ELSE IF made.threw # "none" THEN made
  ELSE Returned([made.cs EXCEPT !._instCache[serviceName][instKey] = made.value,
                                !._pendingInit[serviceName][instKey] = FALSE],
                made.value)

\* Container.get and Container.getImmediate from the cycle check on, with the
\* factory in hand.
CreateInstance(cs, factory, serviceName, instance) ==
  LET instKey == instKeyOf(instance)
      pending == [cs EXCEPT !._pendingInit[serviceName][instKey] = TRUE]
      made == CallFactory(pending, factory, serviceName, instance)
  IN
  IF cs._pendingInit[serviceName][instKey] THEN Threw(cs, "cycle-detected")
  ELSE IF made.threw # "none" THEN made
  ELSE Returned([made.cs EXCEPT !._instCache[serviceName][instKey] = made.value,
                                !._pendingInit[serviceName][instKey] = FALSE],
                made.value)

\* getImmediate that marks the instance pending before it looks for the
\* factory.
Container_getImmediate_PendingFirst(cs, serviceName, instance, optional) ==
  LET cachedVal == Container_getFromCache(cs, serviceName, instance)
      pending == [cs EXCEPT !._pendingInit[serviceName][instKeyOf(instance)] = TRUE]
  IN
  IF Truthy(cachedVal) THEN Returned(cs, cachedVal)
  ELSE IF cs._factories[serviceName] = NoFactory
    THEN (IF optional THEN Returned(pending, Undefined)
          ELSE Threw(pending, "not-exist"))
  ELSE CreateInstance(cs, cs._factories[serviceName], serviceName, instance)

Container_getImmediate(cs, serviceName, instance, optional) ==
  LET cachedVal == Container_getFromCache(cs, serviceName, instance) IN
  IF Truthy(cachedVal) THEN Returned(cs, cachedVal)
  ELSE IF cs._factories[serviceName] = NoFactory
    THEN (IF optional THEN Returned(cs, Undefined) ELSE Threw(cs, "not-exist"))
  ELSE CreateInstance(cs, cs._factories[serviceName], serviceName, instance)

\* ------------------------------------------------------------------------
\* The values and budgets the comparator is applied to
\* ------------------------------------------------------------------------

\* The largest small budget (every budget 0..MaxBudget is drawn, and 1500).
MaxBudget == 22

\* The most elements of a generated array and entries of a generated object.
MaxLen == 2

Budgets == 0 .. MaxBudget \cup {IndexTruncationThresholdBytes}

\* "a", "b", "c", "d" are 1 byte each in UTF-8, e-acute 2, the euro sign 3, and
\* the surrogate pair D800 DF48 4.
Strings ==
  { <<>>, <<97>>, <<97, 98>>, <<97, 98, 99>>, <<97, 98, 100>>, <<98>>,
    <<233>>, <<8364>>, <<55296, 57160>>, <<97, 55296>> }

BigBlob == [i \in 1 .. IndexTruncationThresholdBytes |-> 0]

Numbers == { IntegerValue(0), IntegerValue(1), IntegerValue(2),
             DoubleValue(NaN), DoubleValue(NegZero), DoubleValue(Num(0)),
             DoubleValue(Num(1)), DoubleValue(Num(3)) }

Timestamps == { TimestampValue(1, 0), TimestampValue(1, 5), TimestampValue(10, 0),
                ServerTimestampValue(1, 0, NoValue),
                ServerTimestampValue(2, 0, IntegerValue(1)) }

Blobs == { BlobValue(<<>>), BlobValue(<<1>>), BlobValue(<<1, 2>>), BlobValue(<<2>>) }

Refs == { RefValue(<<112>>, <<100>>, << <<97>> >>),
          RefValue(<<112>>, <<100>>, << <<97>>, <<98>> >>),
          RefValue(<<112>>, <<100>>, << <<97, 98>>, <<99>> >>),
          RefValue(<<113>>, <<100>>, << <<97>> >>) }

GeoPoints == { GeoPointValue(0, 0), GeoPointValue(0, 1), GeoPointValue(1, 0) }

Atoms ==
  {NullValue, BooleanValue(FALSE), BooleanValue(TRUE)} \cup Numbers
    \cup {StringValue(s) : s \in Strings} \cup Timestamps \cup Blobs \cup Refs
    \cup GeoPoints

\* What generated arrays and objects hold.
Elements ==
  { IntegerValue(1), StringValue(<<97>>), GeoPointValue(0, 0) }

Keys == { <<97>>, <<98>>, <<55296, 57160>> }

SeqsUpTo(S, n) == UNION { [1 .. k -> S] : k \in 0 .. n }

IsSortedKeys(ks) == \A i \in 1 .. Len(ks) - 1 : StrLess(ks[i], ks[i + 1])

Arrays == { ArrayValue(vs) : vs \in SeqsUpTo(Elements, MaxLen) }

Objects ==
  { ObjectValue([i \in 1 .. Len(ks) |-> <<ks[i], vs[i]>>]) :
      <<ks, vs>> \in
        { p \in SeqsUpTo(Keys, MaxLen) \X SeqsUpTo(Elements, MaxLen) :
            Len(p[1]) = Len(p[2]) /\ IsSortedKeys(p[1]) } }

\* An array of this many one-letter strings is among the values.
ManyStrings == 18

\* Nested values, values of about 1500 bytes, an array of many strings, and
\* arrays and objects that hold the variants sharing a typeOrder.
Nested ==
  { ArrayValue(<<ObjectValue(<< <<<<97>>, GeoPointValue(0, 0)>> >>)>>),
    ArrayValue(<<ArrayValue(<<IntegerValue(1)>>), IntegerValue(2)>>),
    ObjectValue(<< <<<<97>>, ArrayValue(<<IntegerValue(1), IntegerValue(2)>>)>> >>),
    ObjectValue(<< <<<<97>>, ObjectValue(<< <<<<97>>, IntegerValue(1)>>,
                                            <<<<98>>, IntegerValue(2)>> >>)>> >>),
    BlobValue(BigBlob),
    ObjectValue(<< <<<<97>>, BlobValue(BigBlob)>>, <<<<98>>, NullValue>>,
                   <<<<99>>, NullValue>> >>),
    ArrayValue([i \in 1 .. ManyStrings |-> StringValue(<<97>>)]),
    ArrayValue(<<DoubleValue(Num(1))>>),
    ArrayValue(<<ArrayValue(<<DoubleValue(Num(3))>>), IntegerValue(2)>>),
    ObjectValue(<< <<<<97>>, TimestampValue(1, 0)>> >>),
    ObjectValue(<< <<<<97>>, ServerTimestampValue(1, 0, NoValue)>> >>) }

Values == Atoms \cup Arrays \cup Objects \cup Nested

\* ------------------------------------------------------------------------
\* State
\* ------------------------------------------------------------------------

VARIABLES
  a, b, c,          \* the inputs: the values compared, or the strings handed
                    \* to the helpers of util/misc.ts
  bytesRemaining,   \* the budget handed to compare, or the threshold
  pc,               \* "input" before the calls are made, then which were made
  result,           \* what the calls returned
  instances,        \* Container.instances: every Container constructed
  registrations,    \* Container.registrations: <<serviceName, factory>> pairs
  gets,             \* the calls of the async Container.get, in call order
  immediate         \* what the last call of getImmediate threw or returned

valueVars == <<a, b, c, bytesRemaining, pc, result>>

containerVars == <<instances, registrations, gets, immediate>>

vars == <<a, b, c, bytesRemaining, pc, result, instances, registrations, gets,
          immediate>>

NoImmediate == [threw |-> "none", value |-> Undefined]

\* No Container exists, nothing is registered, no call was made.
InitContainers ==
  /\ instances = <<>>
  /\ registrations = <<>>
  /\ gets = <<>>
  /\ immediate = NoImmediate

NoResult == SizedComparison(0, 0)

InitResult ==
  [ab |-> NoResult, ba |-> NoResult, bc |-> NoResult, ac |-> NoResult,
   equalsAB |-> FALSE, compareToAB |-> 0, sizeA |-> 0, sizeB |-> 0]

Init ==
  /\ a \in Values
  /\ b \in Values
  /\ c = NullValue
  /\ bytesRemaining = 0
  /\ pc = "input"
  /\ result = InitResult
  /\ InitContainers

\* The caller compares a and b in both orders with a budget, asks equals and
\* compareTo, and asks each value's truncatedSize.
Compare(budget) ==
  /\ pc = "input"
  /\ pc' = "compared"
  /\ bytesRemaining' = budget
  /\ result' =
       [result EXCEPT
          !.ab = compare(a, b, budget),
          !.ba = compare(b, a, budget),
          !.equalsAB = equals(a, b),
          !.compareToAB = compareTo(a, b),
          !.sizeA = truncatedSize(a, budget),
          !.sizeB = truncatedSize(b, budget)]
  /\ UNCHANGED <<a, b, c>>
  /\ UNCHANGED containerVars

Next == \E budget \in Budgets : Compare(budget)

Spec == Init /\ [][Next]_vars

\* Three values compared pairwise with one budget.
TriValues ==
  { NullValue, BooleanValue(FALSE), BooleanValue(TRUE),
    IntegerValue(0), IntegerValue(1), DoubleValue(NaN), DoubleValue(NegZero),
    DoubleValue(Num(1)), DoubleValue(Num(3)),
    TimestampValue(1, 5), ServerTimestampValue(1, 0, NoValue),
    StringValue(<<97>>), StringValue(<<97, 98, 99>>), StringValue(<<97, 98, 100>>),
    StringValue(<<55296, 57160>>),
    BlobValue(<<1>>), BlobValue(<<1, 2>>),
    RefValue(<<112>>, <<100>>, << <<97>> >>),
    RefValue(<<112>>, <<100>>, << <<97>>, <<98>> >>),
    GeoPointValue(0, 0), GeoPointValue(0, 1),
    ArrayValue(<<>>), ArrayValue(<<IntegerValue(1)>>),
    ArrayValue(<<IntegerValue(1), StringValue(<<97>>)>>),
    ObjectValue_EMPTY,
    ObjectValue(<< <<<<97>>, IntegerValue(1)>> >>),
    ObjectValue(<< <<<<97>>, IntegerValue(1)>>, <<<<98>>, StringValue(<<97>>)>> >>),
    ObjectValue(<< <<<<97>>, ObjectValue_EMPTY>> >>),
    ObjectValue(<< <<<<97>>, ObjectValue(<< <<<<97>>, IntegerValue(1)>>,
                                            <<<<98>>, IntegerValue(2)>> >>)>> >>) }

InitTriple ==
  /\ a \in TriValues
  /\ b \in TriValues
  /\ c \in TriValues
  /\ bytesRemaining = 0
  /\ pc = "input"
  /\ result = InitResult
  /\ InitContainers

CompareTriple(budget) ==
  /\ pc = "input"
  /\ pc' = "compared"
  /\ bytesRemaining' = budget
  /\ result' =
       [result EXCEPT
          !.ab = compare(a, b, budget),
          !.bc = compare(b, c, budget),
          !.ac = compare(a, c, budget)]
  /\ UNCHANGED <<a, b, c>>
  /\ UNCHANGED containerVars

NextTriple == \E budget \in Budgets : CompareTriple(budget)

SpecTriple == InitTriple /\ [][NextTriple]_vars

\* ------------------------------------------------------------------------
\* The Container's operations
\* ------------------------------------------------------------------------

\* The most Containers constructed, async get calls made, and entries of
\* Container.registrations.
MaxContainers == 1

MaxGets == 2

MaxRegistrations == 1

InitValuesIdle ==
  /\ a = NullValue
  /\ b = NullValue
  /\ c = NullValue
  /\ bytesRemaining = 0
  /\ pc = "idle"
  /\ result = InitResult

InitContainer == InitValuesIdle /\ InitContainers

\* registrations.forEach(register) of the constructor, from entry i: it stops
\* at the first register that throws.
RECURSIVE RegisterEach(_, _, _)
RegisterEach(cs, regs, i) ==
  IF i > Len(regs) THEN Returned(cs, Undefined)
  ELSE LET r == Container_register(cs, regs[i][1], regs[i][2]) IN
       IF r.threw # "none" THEN r ELSE RegisterEach(r.cs, regs, i + 1)

\* new Container(app): the instance is pushed before the registrations are
\* replayed.
Construct ==
  /\ Len(instances) < MaxContainers
  /\ instances' =
       Append(instances,
              RegisterEach(NewContainer(Len(instances) + 1), registrations, 1).cs)
  /\ UNCHANGED <<registrations, gets, immediate>>
  /\ UNCHANGED valueVars

\* container.register(serviceName, factoryFxn), thrown or not.
Register(ci, serviceName, factoryFxn) ==
  /\ instances' =
       [instances EXCEPT
          ![ci] = Container_register(instances[ci], serviceName, factoryFxn).cs]
  /\ UNCHANGED <<registrations, gets, immediate>>
  /\ UNCHANGED valueVars

\* Container.instances.forEach(register) of the module-level register, from
\* container i: the containers afterwards and what was thrown.
RECURSIVE RegisterWithEach(_, _, _, _)
RegisterWithEach(cs, i, serviceName, definition) ==
  IF i > Len(cs) THEN [instances |-> cs, threw |-> "none"]
  ELSE LET r == Container_register(cs[i], serviceName, definition) IN
       IF r.threw # "none" THEN [instances |-> cs, threw |-> r.threw]
       ELSE RegisterWithEach([cs EXCEPT ![i] = r.cs], i + 1, serviceName,
                             definition)

\* register(serviceName, definition) of the package index.
ModuleRegister(serviceName, definition) ==
  LET r == RegisterWithEach(instances, 1, serviceName, definition) IN
  /\ Len(registrations) < MaxRegistrations
  /\ instances' = r.instances
  /\ registrations' =
       IF r.threw = "none"
       THEN Append(registrations, <<serviceName, definition>>)
       ELSE registrations
  /\ UNCHANGED <<gets, immediate>>
  /\ UNCHANGED valueVars

\* container.getImmediate(serviceName, {instance, optional}).
GetImmediate(ci, serviceName, instance, optional) ==
  LET r == Container_getImmediate(instances[ci], serviceName, instance, optional) IN
  /\ instances' = [instances EXCEPT ![ci] = r.cs]
  /\ immediate' = [threw |-> r.threw, value |-> r.value]
  /\ UNCHANGED <<registrations, gets>>
  /\ UNCHANGED valueVars

\* container.get(serviceName, {instance}) up to its await: the cached value
\* is returned, or the factory registered now is awaited, or the promise of
\* the Deferred (created when none is pending).
GetStart(ci, serviceName, instance) ==
  LET cs == instances[ci]
      cachedVal == Container_getFromCache(cs, serviceName, instance)
      call == [container |-> ci, serviceName |-> serviceName, instance |-> instance,
               state |-> "await", factory |-> cs._factories[serviceName],
               deferred |-> cs._factories[serviceName] = NoFactory,
               value |-> Undefined, error |-> "none"]
  IN
  /\ Len(gets) < MaxGets
  /\ gets' =
       Append(gets,
              IF Truthy(cachedVal)
              THEN [call EXCEPT !.state = "resolved", !.value = cachedVal,
                                !.deferred = FALSE]
              ELSE call)
  /\ instances' =
       IF ~Truthy(cachedVal) /\ cs._factories[serviceName] = NoFactory
       THEN [instances EXCEPT ![ci]._pendingRegistration[serviceName] = TRUE]
       ELSE instances
  /\ UNCHANGED <<registrations, immediate>>
  /\ UNCHANGED valueVars

\* The factory a get call awaits: the one it found registered, or the one its
\* Deferred was resolved with by register.
AwaitedFactory(g) ==
  IF g.deferred THEN instances[g.container]._factories[g.serviceName] ELSE g.factory

\* The rest of get call gi, run once the awaited promise is resolved.
GetResume(gi) ==
  LET g == gets[gi]
      r == CreateInstance(instances[g.container], AwaitedFactory(g), g.serviceName,
                          g.instance)
  IN
  /\ g.state = "await"
  /\ AwaitedFactory(g) # NoFactory
  /\ instances' = [instances EXCEPT ![g.container] = r.cs]
  /\ gets' =
       [gets EXCEPT
          ![gi] = [g EXCEPT !.state = IF r.threw = "none" THEN "resolved" ELSE "rejected",
                            !.value = r.value, !.error = r.threw]]
  /\ UNCHANGED <<registrations, immediate>>
  /\ UNCHANGED valueVars

NextContainer ==
  \/ Construct
  \/ \E ci \in 1 .. Len(instances), s \in Services,
        f \in Factories \cup {NotAFunction} : Register(ci, s, f)
  \/ \E s \in Services, f \in Factories : ModuleRegister(s, f)
  \/ \E ci \in 1 .. Len(instances), s \in Services, i \in InstanceOptions,
        o \in BOOLEAN : GetImmediate(ci, s, i, o)
  \/ \E ci \in 1 .. Len(instances), s \in Services, i \in InstanceOptions :
        GetStart(ci, s, i)
  \/ \E gi \in 1 .. Len(gets) : GetResume(gi)

SpecContainer == InitContainer /\ [][NextContainer]_vars

\* The calls of lazy registration: get, register and getImmediate of the
\* default instance of a service, in any order.
NextLazy ==
  \/ Construct
  \/ \E ci \in 1 .. Len(instances), s \in Services, f \in Factories :
        Register(ci, s, f)
  \/ \E ci \in 1 .. Len(instances), s \in Services :
        GetImmediate(ci, s, "", FALSE)
  \/ \E ci \in 1 .. Len(instances), s \in Services : GetStart(ci, s, "")
  \/ \E gi \in 1 .. Len(gets) : GetResume(gi)

\* A get call that awaits a resolved promise goes on: the microtask queue runs
\* every continuation.
FairLazy ==
  \A gi \in 1 .. MaxGets :
    WF_vars(gi <= Len(gets) /\ GetResume(gi))

SpecLazy == InitContainer /\ [][NextLazy]_vars /\ FairLazy

\* ------------------------------------------------------------------------
\* The string helpers of util/misc.ts applied to one string
\* ------------------------------------------------------------------------

\* The longest generated string, in UTF-16 code units.
MaxStrLen == 3

\* The largest threshold handed to truncatedStringLength.
MaxThreshold == 10

\* NUL, 'a', the last 1-byte unit and the first 2-byte one, the last 2-byte
\* unit and the first 3-byte one, the first high surrogate and the first low
\* surrogate.
CodeUnits == {0, 97, 127, 128, 2047, 2048, MIN_HIGH_SURROGATE, 56320}

\* 'cle' with an acute accent, the euro sign and 'uro', the pair D800 DF48
\* and 'pp': the strings of the unit test.
TestStrings ==
  { <<99, 108, 233>>, <<8364, 117, 114, 111>>, <<55296, 57160, 112, 112>>,
    <<65535, 65535, 65535>> }

UtilStrings == SeqsUpTo(CodeUnits, MaxStrLen) \cup TestStrings

Thresholds == 0 .. MaxThreshold

NoStringResult == [index |-> 0, predecessor |-> <<>>, successor |-> <<>>]

InitString ==
  /\ a \in UtilStrings
  /\ b = <<>>
  /\ c = <<>>
  /\ bytesRemaining = 0
  /\ pc = "input"
  /\ result = NoStringResult
  /\ InitContainers

\* truncatedStringLength(threshold)(a): the number it returns.
Truncate(threshold) ==
  /\ pc = "input"
  /\ pc' = "truncated"
  /\ bytesRemaining' = threshold
  /\ result' =
       [result EXCEPT !.index = truncatedStringLengthLoop(threshold, a, 0, 0)[1]]
  /\ UNCHANGED <<a, b, c>>
  /\ UNCHANGED containerVars

\* immediatePredecessor(a) and immediateSuccessor(a).
Neighbours ==
  /\ pc = "input"
  /\ pc' = "neighbours"
  /\ result' =
       [result EXCEPT !.predecessor = immediatePredecessor(a),
                      !.successor = immediateSuccessor(a)]
  /\ UNCHANGED <<a, b, c, bytesRemaining>>
  /\ UNCHANGED containerVars

NextString ==
  \/ \E threshold \in Thresholds : Truncate(threshold)
  \/ Neighbours

SpecString == InitString /\ [][NextString]_vars

\* ------------------------------------------------------------------------
\* stringCompare applied to two strings
\* ------------------------------------------------------------------------

\* 'a' (1 byte), e-acute (2 bytes), a high and a low surrogate.
PairUnits == {97, 233, MIN_HIGH_SURROGATE, 56320}

PairStrings == SeqsUpTo(PairUnits, MaxStrLen)

\* The budgets handed to stringCompare: its threshold is the budget minus 1.
StringBudgets == 0 .. MaxThreshold + 1

InitStringPair ==
  /\ a \in PairStrings
  /\ b \in PairStrings
  /\ c = <<>>
  /\ bytesRemaining = 0
  /\ pc = "input"
  /\ result = NoResult
  /\ InitContainers

\* stringCompare(budget, a, b).
StringCompare(budget) ==
  /\ pc = "input"
  /\ pc' = "compared"
  /\ bytesRemaining' = budget
  /\ result' = stringCompare(budget, a, b)
  /\ UNCHANGED <<a, b, c>>
  /\ UNCHANGED containerVars

NextStringPair == \E budget \in StringBudgets : StringCompare(budget)

SpecStringPair == InitStringPair /\ [][NextStringPair]_vars

\* ------------------------------------------------------------------------
\* ObjectValue.set and ObjectValue.delete called on one object
\* ------------------------------------------------------------------------

\* The longest field path.
MaxPathLen == 3

\* The names of the fields along a path: 'a' and 'b'.
Segments == { <<97>>, <<98>> }

FieldPaths == SeqsUpTo(Segments, MaxPathLen) \ {<<>>}

\* The objects the calls are made on: empty, flat, and nested to three
\* levels, with atoms, arrays and objects under 'a' and 'b'.
ObjectInputs ==
  { ObjectValue_EMPTY,
    ObjectValue(<< <<<<97>>, IntegerValue(1)>> >>),
    ObjectValue(<< <<<<98>>, StringValue(<<97>>)>> >>),
    ObjectValue(<< <<<<97>>, IntegerValue(1)>>, <<<<98>>, GeoPointValue(0, 0)>> >>),
    ObjectValue(<< <<<<97>>, IntegerValue(1)>>, <<<<99>>, NullValue>> >>),
    ObjectValue(<< <<<<97>>, ObjectValue_EMPTY>> >>),
    ObjectValue(<< <<<<97>>, ArrayValue(<<IntegerValue(1), IntegerValue(2)>>)>> >>),
    ObjectValue(<< <<<<97>>, ObjectValue(<< <<<<97>>, IntegerValue(1)>>,
                                            <<<<98>>, IntegerValue(2)>> >>)>> >>),
    ObjectValue(<< <<<<97>>, ObjectValue(<< <<<<98>>, StringValue(<<97>>)>> >>)>>,
                   <<<<98>>, ObjectValue(<< <<<<97>>, ObjectValue_EMPTY>> >>)>> >>),
    ObjectValue(<< <<<<97>>,
                    ObjectValue(<< <<<<98>>,
                                    ObjectValue(<< <<<<97>>, NullValue>>,
                                                   <<<<98>>, IntegerValue(2)>> >>)>> >>)>> >>),
    ObjectValue(<< <<<<98>>,
                    ObjectValue(<< <<<<97>>,
                                    ObjectValue(<< <<<<98>>, DoubleValue(NaN)>> >>)>>,
                                   <<<<99>>, IntegerValue(0)>> >>)>>,
                   <<<<55296, 57160>>, IntegerValue(1)>> >>) }

\* The values set: atoms, NaN, an empty and a non-empty object, an array.
SetValues ==
  { NullValue, IntegerValue(1), DoubleValue(NaN), StringValue(<<97>>),
    ObjectValue_EMPTY, ObjectValue(<< <<<<97>>, IntegerValue(1)>> >>),
    ArrayValue(<<IntegerValue(1)>>) }

NoObjectResult == [path |-> <<>>, to |-> NoValue]

\* a is the object, b what the last call on it returned, c the object as it
\* was constructed.
InitObject ==
  /\ a \in ObjectInputs
  /\ b = NoValue
  /\ c = a
  /\ bytesRemaining = 0
  /\ pc = "input"
  /\ result = NoObjectResult
  /\ InitContainers

\* b = a.set(path, to)
ObjectSet(path, to) ==
  LET r == ObjectValue_set(a, path, to) IN
  /\ a' = r.this
  /\ b' = r.ret
  /\ pc' = "set"
  /\ result' = [path |-> path, to |-> to]
  /\ UNCHANGED <<c, bytesRemaining>>
  /\ UNCHANGED containerVars

\* b = a.delete(path)
ObjectDelete(path) ==
  LET r == ObjectValue_delete(a, path) IN
  /\ a' = r.this
  /\ b' = r.ret
  /\ pc' = "deleted"
  /\ result' = [path |-> path, to |-> NoValue]
  /\ UNCHANGED <<c, bytesRemaining>>
  /\ UNCHANGED containerVars

NextObject ==
  \/ \E path \in FieldPaths, to \in SetValues : ObjectSet(path, to)
  \/ \E path \in FieldPaths : ObjectDelete(path)

SpecObject == InitObject /\ [][NextObject]_vars

\* ------------------------------------------------------------------------
\* The module-level register with several Containers
\* ------------------------------------------------------------------------

\* The most Containers constructed and module-level registrations made when
\* the registry is exercised.
MaxRegistryContainers == 2

MaxRegistryEntries == 2

\* new Container(app)
RegistryConstruct ==
  /\ Len(instances) < MaxRegistryContainers
  /\ instances' =
       Append(instances,
              RegisterEach(NewContainer(Len(instances) + 1), registrations, 1).cs)
  /\ UNCHANGED <<registrations, gets, immediate>>
  /\ UNCHANGED valueVars

\* register(serviceName, definition) of the package index.
RegistryRegister(serviceName, definition) ==
  LET r == RegisterWithEach(instances, 1, serviceName, definition) IN
  /\ Len(registrations) < MaxRegistryEntries
  /\ instances' = r.instances
  /\ registrations' =
       IF r.threw = "none"
       THEN Append(registrations, <<serviceName, definition>>)
       ELSE registrations
  /\ UNCHANGED <<gets, immediate>>
  /\ UNCHANGED valueVars

NextRegistry ==
  \/ RegistryConstruct
  \/ \E s \in Services, f \in Factories : RegistryRegister(s, f)
  \/ \E ci \in 1 .. Len(instances), s \in Services, f \in Factories :
        Register(ci, s, f)
  \/ \E ci \in 1 .. Len(instances), s \in Services :
        GetImmediate(ci, s, "", FALSE)

SpecRegistry == InitContainer /\ [][NextRegistry]_vars

\* ------------------------------------------------------------------------
\* Claims
\* ------------------------------------------------------------------------

\* C1: compare is antisymmetric: for every pair of values and every budget,
\* a.compare(b, budget).cmp = -b.compare(a, budget).cmp (so a value compares 0
\* with itself).
C1_Antisymmetry ==
  pc = "compared" => result.ab.cmp = -result.ba.cmp

\* C2: compare with a fixed budget is transitive: a <= b and b <= c give
\* a <= c.
C2_Transitivity ==
  pc = "compared" =>
    (result.ab.cmp <= 0 /\ result.bc.cmp <= 0 => result.ac.cmp <= 0)

\* Three values of one type order in strictly increasing order, the middle one
\* a number or an object.
C2_Witness ==
  /\ pc = "compared"
  /\ result.ab.cmp = -1 /\ result.bc.cmp = -1 /\ result.ac.cmp = -1
  /\ typeOrder(a) = typeOrder(c)
  /\ Tag(b) \in {"DoubleValue", "ObjectValue"}

\* The rank the claim gives each variant.
C3_Rank(v) ==
  CASE Tag(v) = "NullValue" -> 0
    [] Tag(v) = "BooleanValue" -> 1
    [] Tag(v) \in {"IntegerValue", "DoubleValue"} -> 2
    [] Tag(v) \in {"TimestampValue", "ServerTimestampValue"} -> 3
    [] Tag(v) = "StringValue" -> 4
    [] Tag(v) = "BlobValue" -> 5
    [] Tag(v) = "RefValue" -> 6
    [] Tag(v) = "GeoPointValue" -> 7
    [] Tag(v) = "ArrayValue" -> 8
    [] Tag(v) = "ObjectValue" -> 9

Sign(n) == IF n < 0 THEN -1 ELSE IF n > 0 THEN 1 ELSE 0

\* C3: two values of different type order compare by the type order alone,
\* Null < Boolean < Number < Timestamp < String < Blob < Ref < GeoPoint < Array
\* < Object, whatever the budget, and bytes is the truncatedSize(budget) of the
\* side of the smaller type order.
C3_CrossTypeOrdering ==
  pc = "compared" /\ C3_Rank(a) # C3_Rank(b) =>
    /\ result.ab.cmp = Sign(C3_Rank(a) - C3_Rank(b))
    /\ result.ab.bytes =
         IF C3_Rank(a) < C3_Rank(b) THEN result.sizeA ELSE result.sizeB

\* An object compared with a string: the string's size is charged, which
\* differs from the object's.
C3_Witness ==
  /\ pc = "compared"
  /\ Tag(a) = "ObjectValue" /\ Tag(b) = "StringValue"
  /\ result.ab.cmp = 1
  /\ result.ab.bytes = result.sizeB
  /\ result.sizeA > result.sizeB
  /\ result.sizeB > 0

\* The get calls that found the factory registered when they were made and
\* have resolved.
ResolvedRegisteredGets ==
  {gi \in 1 .. Len(gets) : gets[gi].state = "resolved" /\ ~gets[gi].deferred}

\* C4: in one Container a registered service's factory is invoked at most once
\* for a service and instance name, and all get calls for them, also those
\* made before any of them resolved, resolve to the same instance.
C4_OneInstance ==
  \A ci \in 1 .. Len(instances) :
    /\ \A s \in Services, k \in InstKeys : instances[ci].calls[s][k] <= 1
    /\ \A g1, g2 \in ResolvedRegisteredGets :
         gets[g1].container = ci /\ gets[g2].container = ci
         /\ gets[g1].serviceName = gets[g2].serviceName
         /\ instKeyOf(gets[g1].instance) = instKeyOf(gets[g2].instance)
         => gets[g1].value = gets[g2].value

\* Get call gi was made before its service was registered.
Lazy(gi) == gi <= Len(gets) /\ gets[gi].deferred

\* The factory now registered for the service of get call gi.
FactoryOf(gi) == instances[gets[gi].container]._factories[gets[gi].serviceName]

\* Get call gi has resolved to a service made by the registered factory.
LazyResolved(gi) ==
  /\ gi <= Len(gets)
  /\ gets[gi].state = "resolved"
  /\ Truthy(gets[gi].value)
  /\ gets[gi].value.by = FactoryOf(gi).id
  /\ gets[gi].value.service = gets[gi].serviceName

\* Get call gi has resolved or was rejected.
Settled(gi) == gi <= Len(gets) /\ gets[gi].state # "await"

LazyRejected(gi) == gi <= Len(gets) /\ gets[gi].state = "rejected"

RECURSIVE NumericallyAlike(_, _)
NumericallyAlike(x, y) ==
  IF isNumberValue(x) /\ isNumberValue(y)
    THEN ~isNaN(Payload(x)) /\ ~isNaN(Payload(y)) /\ Payload(x).v = Payload(y).v
  ELSE IF Tag(x) = "ArrayValue" /\ Tag(y) = "ArrayValue"
    THEN /\ Len(Payload(x)) = Len(Payload(y))
         /\ \A i \in 1 .. Len(Payload(x)) :
              NumericallyAlike(Payload(x)[i], Payload(y)[i])
  ELSE IF Tag(x) = "ObjectValue" /\ Tag(y) = "ObjectValue"
    THEN /\ Len(Payload(x)) = Len(Payload(y))
         /\ \A i \in 1 .. Len(Payload(x)) :
              /\ Payload(x)[i][1] = Payload(y)[i][1]
              /\ NumericallyAlike(Payload(x)[i][2], Payload(y)[i][2])
  ELSE equals(x, y)

\* C6: equals implies compareTo = 0, and compareTo = 0 implies equals unless
\* the values differ by numerically equal Integer/Double pairs or +0/-0 pairs.
C6_EqualsAgreesWithCompare ==
  pc = "compared" =>
    /\ result.equalsAB => result.compareToAB = 0
    /\ result.compareToAB = 0 => result.equalsAB \/ NumericallyAlike(a, b)

\* The order the claim gives two numbers: NaN first, -0 equal to +0.
C7_Order(x, y) ==
  IF x.nan /\ y.nan THEN 0
  ELSE IF x.nan THEN -1
  ELSE IF y.nan THEN 1
  ELSE Sign(x.v - y.v)

\* C7: two NumberValues, Integer or Double in any combination, compare by
\* numeric value with NaN below every other number, NaN equal to NaN and -0
\* equal to +0, and bytes is 8.
C7_NumericCompare ==
  pc = "compared" /\ isNumberValue(a) /\ isNumberValue(b) =>
    /\ result.ab.cmp = C7_Order(Payload(a), Payload(b))
    /\ result.ab.bytes = 8

\* NaN compared with an integer, with no budget left.
C7_Witness ==
  /\ pc = "compared"
  /\ a = DoubleValue(NaN) /\ Tag(b) = "IntegerValue"
  /\ bytesRemaining = 0
  /\ result.ab = SizedComparison(-1, 8)
  /\ result.ba = SizedComparison(1, 8)

\* C8 as claimed: bytes >= 0, and bytes exceeds the budget by no more than one
\* atomic token, which is at most 16 bytes.
C8_BudgetBoundAsClaimed ==
  pc = "compared" =>
    result.ab.bytes >= 0 /\ result.ab.bytes <= bytesRemaining + 16

\* C8: bytes >= 0, and bytes exceeds the budget by no more than 19: the up to
\* 3 bytes by which the last character of a string or key passes the budget,
\* and one atomic token of at most 16 bytes compared after it.
C8_BudgetBound ==
  pc = "compared" =>
    result.ab.bytes >= 0 /\ result.ab.bytes <= bytesRemaining + 19

\* Objects whose comparison takes 19 bytes more than the budget.
C8_Witness ==
  /\ pc = "compared"
  /\ Tag(a) = "ObjectValue" /\ Tag(b) = "ObjectValue"
  /\ result.ab.bytes = bytesRemaining + 19

\* C9: compare's bytes is at most the larger of the two values'
\* truncatedSize(budget), plus one atomic token (at most 16 bytes).
C9_ByteAccounting ==
  pc = "compared" =>
    result.ab.bytes <= Max(result.sizeA, result.sizeB) + 16

\* The order of two times: by seconds, then by nanoseconds.
C10_TimeOrder(t, o) ==
  IF t.seconds # o.seconds THEN Sign(t.seconds - o.seconds)
  ELSE Sign(t.nanos - o.nanos)

\* C10: a TimestampValue is below every ServerTimestampValue whatever the times
\* and the budget; two ServerTimestampValues are ordered by localWriteTime and
\* two TimestampValues by their times; bytes is 8 in every case.
C10_TimestampOrdering ==
  pc = "compared" =>
    /\ Tag(a) = "TimestampValue" /\ Tag(b) = "ServerTimestampValue" =>
         /\ result.ab = SizedComparison(-1, 8)
         /\ result.ba = SizedComparison(1, 8)
    /\ Tag(a) = "ServerTimestampValue" /\ Tag(b) = "ServerTimestampValue" =>
         result.ab =
           SizedComparison(
             C10_TimeOrder(Payload(a).localWriteTime, Payload(b).localWriteTime), 8)
    /\ Tag(a) = "TimestampValue" /\ Tag(b) = "TimestampValue" =>
         result.ab = SizedComparison(C10_TimeOrder(Payload(a), Payload(b)), 8)

\* A timestamp later than the local write time of the sentinel it is compared
\* with, with no budget left.
C10_Witness ==
  /\ pc = "compared"
  /\ Tag(a) = "TimestampValue" /\ Tag(b) = "ServerTimestampValue"
  /\ Payload(a).seconds > Payload(b).localWriteTime.seconds
  /\ bytesRemaining = 0
  /\ result.ab = SizedComparison(-1, 8)

\* The UTF-8 bytes the claim counts for the code unit at index i of s and how
\* many units it takes: a high surrogate is counted with the unit after it.
C11_Cost(s, i) ==
  LET u == s[i + 1] IN
  IF u <= 127 THEN <<1, 1>>
  ELSE IF u <= 2047 THEN <<2, 1>>
  ELSE IF u >= 55296 /\ u <= 56319 THEN <<4, 2>>
  ELSE <<3, 1>>

\* The prefix lengths of s that end on a counted unit, each with the bytes of
\* the prefix: 0, and after every unit or pair, never beyond s.length.
RECURSIVE C11_Prefixes(_, _, _)
C11_Prefixes(s, i, count) ==
  IF i >= Len(s) THEN {<<Len(s), count>>}
  ELSE {<<i, count>>}
         \cup C11_Prefixes(s, i + C11_Cost(s, i)[2], count + C11_Cost(s, i)[1])

\* The smallest such prefix length with at least threshold bytes, s.length
\* when there is none.
C11_Expected(threshold, s) ==
  LET enough == {p \in C11_Prefixes(s, 0, 0) : p[2] >= threshold} IN
  IF enough = {} THEN Len(s)
  ELSE (CHOOSE p \in enough : \A q \in enough : p[1] <= q[1])[1]

\* C11: truncatedStringLength(threshold)(s) returns the smallest prefix length
\* whose UTF-8 byte count reaches the threshold, or s.length when the whole
\* string has fewer bytes; with threshold 0 it returns 0.
C11_TruncatedLength ==
  pc = "truncated" =>
    /\ result.index = C11_Expected(bytesRemaining, a)
    /\ bytesRemaining = 0 => result.index = 0

C12_isLowSurrogate(u) == u >= 56320 /\ u <= 57343

\* Index i of s lies between a high surrogate and the low surrogate after it.
C12_SplitsPair(s, i) ==
  /\ i >= 1
  /\ i < Len(s)
  /\ isHighSurrogate(s[i])
  /\ C12_isLowSurrogate(s[i + 1])

\* C12: truncatedStringLength(threshold)(s) never returns an index between a
\* high surrogate and the low surrogate that follows it.
C12_NoSplitPair ==
  pc = "truncated" => ~C12_SplitsPair(a, result.index)

\* The prefix of s cut at the given number of UTF-8 bytes.
C13_Prefix(bytes, s) == SubSeq(s, 1, C11_Expected(bytes, s))

\* Raw code-unit order of two strings: -1, 0 or 1.
RECURSIVE C13_Order(_, _)
C13_Order(l, r) ==
  IF l = <<>> THEN (IF r = <<>> THEN 0 ELSE -1)
  ELSE IF r = <<>> THEN 1
  ELSE IF l[1] < r[1] THEN -1
  ELSE IF l[1] > r[1] THEN 1
  ELSE C13_Order(Tail(l), Tail(r))

C13_Expected(remaining, l, r) ==
  LET lp == C13_Prefix(remaining - 1, l)
      rp == C13_Prefix(remaining - 1, r)
      leftCut == lp # l
      rightCut == rp # r
  IN IF lp # rp THEN C13_Order(lp, rp)
     ELSE IF leftCut = rightCut THEN 0
     ELSE IF leftCut THEN 1
     ELSE -1

\* C13: stringCompare cuts both strings at remaining - 1 UTF-8 bytes and
\* orders the prefixes by code units; equal prefixes compare 0 when both or
\* neither string was cut, and otherwise the cut string is the greater.
C13_StringCompare ==
  pc = "compared" => result.cmp = C13_Expected(bytesRemaining, a, b)

\* 'aa' against 'a' with room for one byte: equal prefixes, only the left cut.
C13_Witness ==
  /\ pc = "compared"
  /\ a = <<97, 97>>
  /\ b = <<97>>
  /\ bytesRemaining = 2
  /\ result.cmp = 1

\* The strings the neighbours of a string are compared with.
C20_Others == UtilStrings

\* p is the largest string below s among the strings no longer than s.
C20_LargestBelow(p, s) ==
  /\ C13_Order(p, s) = -1
  /\ Len(p) <= Len(s)
  /\ \A t \in C20_Others :
       Len(t) <= Len(s) /\ C13_Order(t, s) = -1 => C13_Order(t, p) <= 0

\* n is the smallest string above s.
C20_SmallestAbove(n, s) ==
  /\ C13_Order(s, n) = -1
  /\ \A t \in C20_Others : C13_Order(s, t) = -1 => C13_Order(n, t) <= 0

\* C20: immediatePredecessor(s) of a non-empty s is the largest string below s
\* that is no longer than s (s without its trailing NUL, or with its last code
\* unit decremented), immediatePredecessor('') is '', and immediateSuccessor(s)
\* is s + NUL, the smallest string above s.
C20_Neighbours ==
  pc = "neighbours" =>
    /\ a = <<>> => result.predecessor = <<>>
    /\ a # <<>> => C20_LargestBelow(result.predecessor, a)
    /\ a # <<>> /\ a[Len(a)] = 0 => result.predecessor = SubSeq(a, 1, Len(a) - 1)
    /\ a # <<>> /\ a[Len(a)] # 0 =>
         result.predecessor = [a EXCEPT ![Len(a)] = a[Len(a)] - 1]
    /\ result.successor = a \o <<0>>
    /\ C20_SmallestAbove(result.successor, a)

\* 'a' followed by NUL: the predecessor is 'a', the successor ends in two NULs.
C20_Witness ==
  /\ pc = "neighbours"
  /\ a = <<97, 0>>
  /\ result.predecessor = <<97>>
  /\ result.successor = <<97, 0, 0>>

\* C14: a.set(p, v).field(p) equals v, whatever the children of a along p
\* were, and a.delete(p).field(p) is undefined.
C14_RoundTrip ==
  /\ pc = "set" =>
       /\ ObjectValue_field(b, result.path) # NoValue
       /\ equals(ObjectValue_field(b, result.path), result.to)
  /\ pc = "deleted" => ObjectValue_field(b, result.path) = NoValue

\* {a: 1} after set(a.b.a, NaN): the integer at 'a' gave way to an object.
C14_Witness ==
  /\ pc = "set"
  /\ c = ObjectValue(<< <<<<97>>, IntegerValue(1)>> >>)
  /\ result.path = << <<97>>, <<98>>, <<97>> >>
  /\ result.to = DoubleValue(NaN)
  /\ ObjectValue_field(b, << <<97>>, <<98>> >>)
       = ObjectValue(<< <<<<97>>, DoubleValue(NaN)>> >>)

\* C15: set and delete leave the receiver as it was: after any calls of
\* a.set and a.delete, a.field(q) is for every path q what it was when a was
\* constructed, and a equals its former self.
C15_ReceiverUnchanged ==
  pc \in {"set", "deleted"} =>
    /\ equals(a, c)
    /\ \A q \in FieldPaths : ObjectValue_field(a, q) = ObjectValue_field(c, q)

\* {a: {}} after a.set(a.b, 1): the returned object holds the integer, the
\* receiver still has an empty object under 'a'.
C15_Witness ==
  /\ pc = "set"
  /\ result.path = << <<97>>, <<98>> >>
  /\ result.to = IntegerValue(1)
  /\ b = ObjectValue(<< <<<<97>>, ObjectValue(<< <<<<98>>, IntegerValue(1)>> >>)>> >>)
  /\ ObjectValue_field(a, << <<97>> >>) = ObjectValue_EMPTY

\* Container ci serves serviceName with definition: getImmediate returns only
\* what definition built, and does return when definition returns an object.
C16_Serves(ci, serviceName, definition) ==
  LET r == Container_getImmediate(instances[ci], serviceName, "", FALSE) IN
  /\ r.threw = "none" => r.value.by = definition.id
  /\ definition.kind = "object" => r.threw = "none"

\* C16: once the module-level register(serviceName, definition) has returned,
\* its entry is in Container.registrations, and getImmediate(serviceName) on
\* every Container, constructed before or after, returns a service built by
\* definition.
C16_RegistrationPersists ==
  \A k \in 1 .. Len(registrations), ci \in 1 .. Len(instances) :
    C16_Serves(ci, registrations[k][1], registrations[k][2])

\* register(serviceName, factoryFxn) on container ci is one of the two refused
\* calls: no function, or a name that has a factory.
C17_Refused(ci, serviceName, factoryFxn) ==
  \/ factoryFxn = NotAFunction
  \/ instances[ci]._factories[serviceName] # NoFactory

\* C17: Container.register throws when the factory is no function and when
\* the name has a factory already, and such a call changes neither the
\* registered factories nor the cached instances nor the pending gets: on
\* every container, whatever was registered, created and awaited before.
C17_RegisterRefuses ==
  \A ci \in 1 .. Len(instances), s \in Services,
     f \in Factories \cup {NotAFunction} :
    C17_Refused(ci, s, f) =>
      LET r == Container_register(instances[ci], s, f) IN
      /\ r.threw = IF f = NotAFunction THEN "invalid-factory" ELSE "already-exists"
      /\ r.cs._factories = instances[ci]._factories
      /\ r.cs._instCache = instances[ci]._instCache
      /\ r.cs._pendingRegistration = instances[ci]._pendingRegistration
      /\ r.cs = instances[ci]

\* A container with a factory and a cached instance for 'a' and a get of 'b'
\* pending: both refused calls of register can be made on it.
C17_Witness ==
  /\ Len(instances) >= 1
  /\ instances[1]._factories["a"] # NoFactory
  /\ Truthy(instances[1]._instCache["a"][DEFAULT_SERVICE_INSTANCE])
  /\ instances[1]._pendingRegistration["b"]
  /\ \E gi \in 1 .. Len(gets) : gets[gi].state = "await"
  /\ \A f \in Factories :
       Container_register(instances[1], "a", f).threw = "already-exists"
  /\ Container_register(instances[1], "b", NotAFunction).threw = "invalid-factory"

C18_Cycle(cs) ==
  /\ cs._factories["a"].kind = "dep"
  /\ cs._factories["a"].dep = "b"
  /\ cs._factories["b"].kind = "dep"
  /\ cs._factories["b"].dep = "a"

\* C18: when the factories of 'a' and 'b' ask for each other, getImmediate('a')
\* throws 'cycle-detected', and a get('a') that goes on to create the instance
\* is rejected with it; neither recurses without end.
C18_CycleDetected ==
  \A ci \in 1 .. Len(instances) :
    C18_Cycle(instances[ci]) =>
      /\ \A i \in InstanceOptions, o \in BOOLEAN :
           Container_getImmediate(instances[ci], "a", i, o).threw = "cycle-detected"
      /\ \A gi \in 1 .. Len(gets) :
           gets[gi].container = ci /\ gets[gi].serviceName = "a"
             /\ gets[gi].state = "await" =>
               CreateInstance(instances[ci], AwaitedFactory(gets[gi]), "a",
                              gets[gi].instance).threw = "cycle-detected"

\* With both factories registered, getImmediate has thrown 'cycle-detected'
\* and a get('a') was rejected with it.
C18_Witness ==
  /\ Len(instances) >= 1
  /\ C18_Cycle(instances[1])
  /\ immediate.threw = "cycle-detected"
  /\ \E gi \in 1 .. Len(gets) :
       /\ gets[gi].serviceName = "a"
       /\ gets[gi].state = "rejected"
       /\ gets[gi].error = "cycle-detected"

\* The UTF-8 bytes of s cut at the given threshold: those of the shortest
\* counted prefix that reaches it, or of all of s.
C21_TruncatedBytes(threshold, s) ==
  LET all == C11_Prefixes(s, 0, 0)
      enough == {p \in all : p[2] >= threshold}
  IN IF enough = {}
     THEN (CHOOSE p \in all : \A q \in all : q[2] <= p[2])[2]
     ELSE (CHOOSE p \in enough : \A q \in enough : p[2] <= q[2])[2]

\* C21: stringCompare reports as bytes the truncated UTF-8 length (at
\* threshold remaining - 1) of the side that is smaller or equal, plus 1 byte
\* of overhead, in whichever argument position that side is.
C21_StringBytes ==
  pc = "compared" =>
    result.bytes =
      C21_TruncatedBytes(bytesRemaining - 1, IF result.cmp <= 0 THEN a ELSE b) + 1

\* What the claim expects of ObjectValue.compare from entry i (0-based) on,
\* with `remaining` of the budget left after the equal entries before it: at
\* a pair of differing keys, the keys' ordering and the bytes used so far plus
\* the lower key's truncated bytes, 1, and the truncatedSize of its value
\* against what is then left.  `met` is FALSE when no such pair is met.
RECURSIVE C22_Expected(_, _, _, _, _)
C22_Expected(es, os, i, remaining, budget) ==
  IF ~(i < Len(es) /\ i < Len(os) /\ remaining >= 0)
  THEN [met |-> FALSE, cmp |-> 0, bytes |-> 0]
  ELSE
    LET key1 == es[i + 1][1]
        key2 == os[i + 1][1]
        keyOrder == C13_Expected(remaining, key1, key2)
        loser == IF keyOrder < 0 THEN es[i + 1] ELSE os[i + 1]
        afterKey == remaining - (C21_TruncatedBytes(remaining - 1, loser[1]) + 1)
        values == compare(es[i + 1][2], os[i + 1][2], afterKey)
    IN
    IF keyOrder # 0
    THEN [met |-> TRUE, cmp |-> keyOrder,
          bytes |-> budget - (afterKey - truncatedSize(loser[2], afterKey))]
    ELSE IF values.cmp # 0 THEN [met |-> FALSE, cmp |-> 0, bytes |-> 0]
    ELSE C22_Expected(es, os, i + 1, afterKey - values.bytes, budget)

\* C22: when ObjectValue.compare meets a pair of entries whose keys differ, it
\* returns the keys' ordering, and bytes is what the equal entries before
\* consumed plus the lower key's truncated bytes, 1 byte of overhead, and the
\* truncatedSize of the lower key's value against the budget left after the key.
C22_KeyMismatch ==
  pc = "compared" /\ Tag(a) = "ObjectValue" /\ Tag(b) = "ObjectValue" =>
    LET e == C22_Expected(Payload(a), Payload(b), 0, bytesRemaining, bytesRemaining)
    IN e.met => result.ab.cmp = e.cmp /\ result.ab.bytes = e.bytes

\* The first pair of entries, from entry i (0-based) on, at which
\* ObjectValue.compare finds the keys to differ: the budget left once the
\* keys are paid for, and the value of the lower key.  `met` is FALSE when
\* the values differ first, or the entries or the budget run out.
RECURSIVE C23_Mismatch(_, _, _, _)
C23_Mismatch(es, os, i, remaining) ==
  IF ~(i < Len(es) /\ i < Len(os) /\ remaining >= 0)
  THEN [met |-> FALSE, afterKeys |-> 0, loser |-> NoValue]
  ELSE
    LET keys == stringCompare(remaining, es[i + 1][1], os[i + 1][1])
        afterKeys == remaining - keys.bytes
        values == compare(es[i + 1][2], os[i + 1][2], afterKeys)
    IN
    IF keys.cmp # 0
    THEN [met |-> TRUE, afterKeys |-> afterKeys,
          loser |-> IF keys.cmp < 0 THEN es[i + 1][2] ELSE os[i + 1][2]]
    ELSE IF values.cmp # 0 THEN [met |-> FALSE, afterKeys |-> 0, loser |-> NoValue]
    ELSE C23_Mismatch(es, os, i + 1, afterKeys - values.bytes)

\* bytes reported at a key mismatch when the lower side's value is sized
\* against `against`.
C23_Charged(against) ==
  pc = "compared" /\ Tag(a) = "ObjectValue" /\ Tag(b) = "ObjectValue" =>
    LET m == C23_Mismatch(Payload(a), Payload(b), 0, bytesRemaining) IN
    m.met =>
      result.ab.bytes =
        (bytesRemaining - m.afterKeys)
          + truncatedSize(m.loser, IF against = "original" THEN bytesRemaining
                                   ELSE m.afterKeys)

\* C23 as claimed: at a mismatch the losing side's truncated size is computed
\* against the budget that was passed to compare.
C23_OriginalBudgetAsClaimed == C23_Charged("original")

\* C23: at a key mismatch the losing side's value is sized against the budget
\* that remains after the key costs, not against the budget passed to compare.
C23_RemainingBudget == C23_Charged("remaining")

\* {a: 'a'} against {b: 1} with budget 2: the keys use the budget up, the
\* string under 'a' is charged 0 bytes and not the 1 byte it has.
C23_Witness ==
  /\ pc = "compared"
  /\ bytesRemaining = 2
  /\ a = ObjectValue(<< <<<<97>>, StringValue(<<97>>)>> >>)
  /\ b = ObjectValue(<< <<<<98>>, IntegerValue(1)>> >>)
  /\ result.ab = SizedComparison(-1, 2)
  /\ truncatedSize(StringValue(<<97>>), bytesRemaining) = 1

\* The budget left before the children at index i (0-based) of two arrays are
\* compared, the children before having compared equal.
RECURSIVE C24_Left(_, _, _, _)
C24_Left(xs, ys, i, budget) ==
  IF i = 0 THEN budget
  ELSE C24_Left(xs, ys, i - 1, budget)
         - compare(xs[i], ys[i], C24_Left(xs, ys, i - 1, budget)).bytes

\* The index at which the walk over two arrays ends: the first at which the
\* shorter array or the budget is exhausted or the children differ.
C24_Stop(xs, ys, budget) ==
  LET shorter == Min(Len(xs), Len(ys))
      Walked(i) ==
        \A j \in 0 .. i - 1 :
          /\ C24_Left(xs, ys, j, budget) > 0
          /\ compare(xs[j + 1], ys[j + 1], C24_Left(xs, ys, j, budget)).cmp = 0
  IN CHOOSE i \in 0 .. shorter :
       /\ Walked(i)
       /\ \A k \in i + 1 .. shorter : ~Walked(k)

C24_Expected(x, y, budget) ==
  LET xs == Payload(x)
      ys == Payload(y)
      i == C24_Stop(xs, ys, budget)
      left == C24_Left(xs, ys, i, budget)
      child == compare(xs[i + 1], ys[i + 1], left)
  IN
  IF i < Min(Len(xs), Len(ys)) /\ left > 0
  THEN SizedComparison(child.cmp,
         truncatedSize(IF child.cmp < 0 THEN x ELSE y, budget))
  ELSE SizedComparison(
         IF Len(xs) < Len(ys) THEN -1 ELSE IF Len(xs) = Len(ys) THEN 0 ELSE 1,
         budget - left)

\* C24: ArrayValue.compare walks both arrays while budget remains, subtracting
\* the bytes of each equal child; at the first child that differs it returns
\* the child's cmp with bytes the truncatedSize, against the initial budget,
\* of the losing array (the receiver when cmp < 0, else the other); otherwise
\* it orders by length with bytes the initial budget minus what remains.
C24_ArrayCompare ==
  pc = "compared" /\ Tag(a) = "ArrayValue" /\ Tag(b) = "ArrayValue" =>
    result.ab = C24_Expected(a, b, bytesRemaining)

\* [1, 'a'] against [1, GeoPoint] with budget 9: the second children differ
\* with 1 byte left, and the receiver is charged 9 bytes, its size against 9.
C24_Witness ==
  /\ pc = "compared"
  /\ bytesRemaining = 9
  /\ a = ArrayValue(<<IntegerValue(1), StringValue(<<97>>)>>)
  /\ b = ArrayValue(<<IntegerValue(1), GeoPointValue(0, 0)>>)
  /\ result.ab = SizedComparison(-1, 9)

\* The number of leading segments of a path whose bytes fit in a budget, and
\* the bytes they take.
RECURSIVE C25_Bytes(_, _)
C25_Bytes(key, n) == IF n = 0 THEN 0 ELSE C25_Bytes(key, n - 1) + Utf8Len(key[n])

C25_Kept(key, budget) ==
  CHOOSE n \in 0 .. Len(key) :
    /\ C25_Bytes(key, n) <= budget
    /\ n < Len(key) => C25_Bytes(key, n + 1) > budget

C25_Cut(key, budget) == SubSeq(key, 1, C25_Kept(key, budget))

C25_Charge(key, budget) == C25_Bytes(key, C25_Kept(key, budget))

\* The order of two paths: segment by segment, a proper prefix first.
C25_PathOrder(p, q) ==
  LET common == { i \in 1 .. Min(Len(p), Len(q)) : \A j \in 1 .. i : p[j] = q[j] }
      n == Cardinality(common)
  IN
  IF n < Min(Len(p), Len(q))
  THEN primitiveComparatorStr(p[n + 1], q[n + 1])
  ELSE IF Len(p) < Len(q) THEN -1 ELSE IF Len(p) = Len(q) THEN 0 ELSE 1

C25_Expected(x, y, budget) ==
  LET ids == DatabaseId_compareTo(Payload(x).databaseId, Payload(y).databaseId)
      xk == Payload(x).key
      yk == Payload(y).key
      paths == C25_PathOrder(C25_Cut(xk, budget - 16), C25_Cut(yk, budget - 16))
  IN
  IF budget <= 16 THEN SizedComparison(ids, 16)
  ELSE IF ids # 0
    THEN SizedComparison(ids,
           C25_Charge(IF ids < 0 THEN xk ELSE yk, budget - 16))
  ELSE SizedComparison(paths,
         C25_Charge(IF paths <= 0 THEN xk ELSE yk, budget - 16))

\* C25: RefValue.compare with a budget of at most 16 reports 16 bytes, the
\* path contributing nothing; with more it orders by DatabaseId first and
\* charges the losing side's path truncated at budget - 16, and for equal
\* DatabaseIds it orders the two paths truncated at budget - 16 and charges
\* the truncated byteLength of the smaller-or-equal side.
C25_RefCompare ==
  pc = "compared" /\ Tag(a) = "RefValue" /\ Tag(b) = "RefValue" =>
    result.ab = C25_Expected(a, b, bytesRemaining)

\* p/d a/b against p/d a with budget 17: one byte of path is compared, both
\* paths are cut to a, and the references compare equal at a charge of 1.
C25_Witness ==
  /\ pc = "compared"
  /\ bytesRemaining = 17
  /\ a = RefValue(<<112>>, <<100>>, << <<97>>, <<98>> >>)
  /\ b = RefValue(<<112>>, <<100>>, << <<97>> >>)
  /\ result.ab = SizedComparison(0, 1)

C26_Returned(r) == r.cmp \in {-1, 0, 1} /\ r.bytes \in Nat

\* C26: compare never fails: for every pair of variants, IntegerValue against
\* DoubleValue and TimestampValue against ServerTimestampValue included, at
\* every nesting depth and for every budget, the assertion of
\* defaultCompareTo is not reached with two values of one typeOrder, and a
\* {cmp, bytes} pair is returned.
C26_NeverAsserts ==
  pc = "compared" => C26_Returned(result.ab) /\ C26_Returned(result.ba)

\* [[1], 2] against [[3.0], 2]: an integer meets a double two arrays deep and
\* the comparison returns an order.
C26_Witness ==
  /\ pc = "compared"
  /\ a = ArrayValue(<<ArrayValue(<<IntegerValue(1)>>), IntegerValue(2)>>)
  /\ b = ArrayValue(<<ArrayValue(<<DoubleValue(Num(3))>>), IntegerValue(2)>>)
  /\ bytesRemaining = MaxBudget
  /\ typeOrder(IntegerValue(1)) = typeOrder(DoubleValue(Num(3)))
  /\ result.ab.cmp = -1
  /\ result.ba.cmp = 1

\* C27: the index returned by truncatedStringLength(threshold)(s) is at most
\* s.length: 0 <= index <= s.length for every string and every threshold.
C27_IndexWithinLength ==
  pc = "truncated" => 0 <= result.index /\ result.index <= Len(a)

\* The first index (1-based) at which two strings differ, one past the
\* shorter string when it is a prefix of the other.
C28_FirstDifference(l, r) ==
  CHOOSE i \in 1 .. Min(Len(l), Len(r)) + 1 :
    /\ \A j \in 1 .. i - 1 : l[j] = r[j]
    /\ i <= Min(Len(l), Len(r)) => l[i] # r[i]

\* The order of the whole strings by their UTF-16 code units.
C28_RawOrder(l, r) ==
  LET i == C28_FirstDifference(l, r) IN
  IF i <= Min(Len(l), Len(r))
  THEN (IF l[i] < r[i] THEN -1 ELSE 1)
  ELSE IF Len(l) < Len(r) THEN -1 ELSE IF Len(l) = Len(r) THEN 0 ELSE 1

\* C28: the truncated comparison of two strings never contradicts their
\* untruncated order: a nonzero cmp of stringCompare(budget, L, R) has the
\* sign of the code-unit comparison of the whole of L and R.
C28_NeverReversed ==
  pc = "compared" /\ result.cmp # 0 => result.cmp = C28_RawOrder(a, b)

\* 'aaa' against 'aa' with budget 3: the left string is cut to 'aa', the right
\* one is whole, and the left string is reported greater, as it is.
C28_Witness ==
  /\ pc = "compared"
  /\ bytesRemaining = 3
  /\ a = <<97, 97, 97>>
  /\ b = <<97, 97>>
  /\ truncatedStringLength(bytesRemaining - 1, a).index = 2
  /\ result.cmp = 1

\* C29: the module-level register is all-or-nothing: when
\* register(serviceName, definition) throws, because a Container already has
\* a factory under serviceName, the call has changed neither a Container's
\* registered factories nor Container.registrations.
C29_AllOrNothing ==
  [][\A s \in Services, f \in Factories :
       RegistryRegister(s, f)
         /\ RegisterWithEach(instances, 1, s, f).threw # "none"
       => UNCHANGED <<instances, registrations>>]_vars

\* Between two calls no factory call is running: each action runs a call of
\* getImmediate, or the part of a call of get after its await, to its end.
C30_Marked(ci, s, k) == instances[ci]._pendingInit[s][k]

\* C30: the pending-initialisation mark of a service and instance name is set
\* only while that factory call is running: once a call of get or getImmediate
\* has finished, returned or failed, the mark is cleared, and a later
\* getImmediate of a service whose factory asks for no other service does not
\* throw 'cycle-detected'.
C30_MarkCleared ==
  \A ci \in 1 .. Len(instances), s \in Services, i \in InstanceOptions :
    /\ ~C30_Marked(ci, s, instKeyOf(i))
    /\ instances[ci]._factories[s].kind \in {"object", "throws"}
         => Container_getImmediate(instances[ci], s, i, FALSE).threw
              # "cycle-detected"

====
